---- MODULE Spec2Model ----
(***************************************************************************)
(* LLBot CLI launcher: process supervisor (src/main.rs) and login session  *)
(* monitor (src/main.rs start_login_listener, src/pmhq_client.rs).         *)
(*                                                                         *)
(* Threads modelled, each with its own program counter:                    *)
(*   main      main()                        main_pc                       *)
(*   handler   the ctrlc handler closure     h_pc                          *)
(*   monitor   start_login_listener's thread mon_pc                        *)
(*   refresh   the QR refresh loop           ref_pc, ref_i                 *)
(*   listener  start_sse_listener (runs on the monitor thread)  sse_pc     *)
(*   relays    the stdout and stderr relay threads  rl_pc                  *)
(* The worker process (pmhq) and the interrupt signal are the environment. *)
(*                                                                         *)
(* The updater (src/updater.rs) is modelled in three parts, each with its  *)
(* own specification over the same variables:                              *)
(*   SpecVer  compare_versions as a function of two strings                *)
(*   SpecRes  the three check_update calls of run_update, with the mirror  *)
(*            races of fetch_package_info and get_best_download_registry   *)
(*   SpecUpd  run_update from its table on: filter, prompt, install loop,  *)
(*            self_update on the Windows and on the other builds           *)
(* SpecSup is the launcher and supervisor, SpecLogin the login monitor.    *)
(***************************************************************************)
EXTENDS Integers, Sequences, FiniteSets, TLC

VARIABLES
    \* ---- main thread and process ----
    main_pc,        \* position of main()
    args,           \* launcher-level flags present in env::args
    fatal,          \* launcher-level failure that was reported ("none" if none)
    exit_arg,       \* argument of the pending wait_exit(code)
    port,           \* result of find_available_port
    exited,         \* the launcher process has terminated
    exit_kind,      \* "none", "code" (process::exit / return), "signal"
    exit_code,      \* exit code when exit_kind = "code"
    update_ran,     \* updater::run_update was called
    \* ---- worker process and its handle ----
    worker,         \* "none", "running", "exited" (not yet waited), "reaped"
    worker_code,    \* exit code of the worker, NoCode when killed by a signal
    slot,           \* Arc<Mutex<Option<GroupChild>>> content: "None" / "Some"
    lock,           \* owner of the slot mutex: "free", "main", "handler"
    observed,       \* what the wait loop saw when it left: "none","status","error","empty"
    \* ---- ctrlc handler ----
    handler_set,    \* ctrlc::set_handler succeeded
    h_pc,           \* position of the handler closure
    h_waited,       \* the handler found the mutex held and blocked in lock()
    kill_count,     \* number of GroupChild::kill calls
    kill_target,    \* state of the worker when kill was called
    kill_result,    \* "none", "ok", "err": the Result of kill (discarded by the code)
    \* ---- login monitor ----
    logged_in,      \* the AtomicBool
    mon_pc,         \* position of the monitor thread
    info_result,    \* outcome of get_self_info: "none", "ok", "err", "no_uin"
    ref_pc,         \* position of the refresh loop thread
    ref_i,          \* iteration counter of `for _ in 0..120`
    ref_result,     \* Result of the last request_qrcode (discarded by the code)
    ref_late,       \* a QR request was issued while the flag was already true
    sse_pc,         \* position of start_sse_listener
    sse_line,       \* the item of reader.lines() handled last
    qr_calls,       \* number of on_qrcode invocations
    \* ---- start-up history ----
    port_tried,     \* find_available_port has been called
    \* ---- compare_versions (updater.rs) ----
    cv_cur,         \* argument `current`, a string as a sequence of characters
    cv_lat,         \* argument `latest`
    cv_pc,          \* "call" before compare_versions runs, "ret" after
    cv_newer,       \* the bool returned
    \* ---- update resolver (updater.rs check_update and below) ----
    res_pc,         \* position of run_update in its three check_update calls
    res_i,          \* index of the component being checked, 1..3
    local_ver,      \* current_version of each component
    infos,          \* the UpdateInfo values returned so far, in call order
    fetch_res,      \* Result of the running call's fetch_package_info
    primary_asked,  \* the running call has queried the primary registry
    thr,            \* state of each mirror thread of the current race
    chan,           \* messages sent on the current race's channel, in arrival order
    chan_kind,      \* which race the channel belongs to: "none", "info", "exists"
    rx_n,           \* number of messages the consumer has received
    abandoned,      \* threads of finished races that have not sent yet
    \* ---- update coordinator (updater.rs run_update from the table on) ----
    platform,       \* cfg(target_os): "windows" or "unix"
    co_pc,          \* position of run_update after its check_update calls
    updates,        \* the filtered list, as indices into infos
    upd_k,          \* index of the update loop in `updates`
    need_self_update,
    dir_state,      \* per installed component: content of its directory
    dl_res,         \* per installed component: Result of download_and_extract
    self_res,       \* Result of self_update: "none", "Ok", "Err"
    own_exe,        \* what the launcher's executable path holds
    backup_exe,     \* what the .bak path next to it holds
    helper,         \* the update script of the Windows build
    \* ---- download_and_extract (updater.rs 295-365), one call ----
    dl_pc,          \* position inside download_and_extract
    dl_before,      \* extract_dir as it was when the call started
    dl_dir,         \* extract_dir now: its entries and the two scratch names
    dl_pkg,         \* names of the entries under package/ in the archive
    dl_todo,        \* entries of package/ that read_dir has not yielded yet
    dl_ret,         \* the Result returned: "none", "Ok", "Err"
    \* ---- the relay threads of main (main.rs 254-280), per stream ----
    rl_pc,          \* relay thread: "none", "run", "done"
    rl_written,     \* lines the worker has written to its end of the pipe
    rl_pipe,        \* lines in the pipe, not yet read by the relay thread
    rl_out          \* lines the relay thread has written to the launcher's stream

supVars == <<main_pc, args, fatal, exit_arg, port, exited, exit_kind, exit_code,
             update_ran, worker, worker_code, slot, lock, observed,
             handler_set, h_pc, h_waited, kill_count, kill_target, kill_result,
             port_tried>>

loginVars == <<logged_in, mon_pc, info_result, ref_pc, ref_i, ref_result,
               ref_late, sse_pc, sse_line, qr_calls>>

verVars == <<cv_cur, cv_lat, cv_pc, cv_newer>>

resVars == <<res_pc, res_i, local_ver, infos, fetch_res, primary_asked, thr, chan,
             chan_kind, rx_n, abandoned>>

coVars == <<platform, co_pc, updates, upd_k, need_self_update, dir_state, dl_res,
            self_res, own_exe, backup_exe, helper>>

dlVars == <<dl_pc, dl_before, dl_dir, dl_pkg, dl_todo, dl_ret>>

relayVars == <<rl_pc, rl_written, rl_pipe, rl_out>>

restVars == <<verVars, resVars, coVars, dlVars, relayVars>>

vars == <<supVars, loginVars, restVars>>

(***************************************************************************)
(* Program constants and bounds                                            *)
(***************************************************************************)
DEFAULT_PORT == 13000

PORT_RANGE_END == 14000

SleepChecks == 120

\* largest worker exit code drawn by the environment
MaxCode == 2

\* most QR-ready frames the worker sends in one run
MaxQrCalls == 2

\* ExitStatus::code() is None (terminated by a signal)
NoCode == -1

\* find_available_port returned None
NoPort == 0

WorkerCodes == 0..MaxCode

ArgUniverse == {"--help", "-h", "--version", "-v", "--update", "--headless"}

\* ports that may be free on the machine: both ends of the range and the
\* first port past it
PortSamples == {DEFAULT_PORT, PORT_RANGE_END - 1, PORT_RANGE_END}

LaunchFatal == {"no_pmhq", "no_node", "no_llbot_js", "no_port", "spawn_failed"}

(***************************************************************************)
(* Helpers                                                                 *)
(***************************************************************************)
\* std::process::exit(code) and return from main
Exit(code) ==
    /\ exited' = TRUE
    /\ exit_kind' = "code"
    /\ exit_code' = code

\* wait_exit(code): prompt, block on stdin, then exit
CallWaitExit(code) ==
    /\ main_pc' = "wait_exit"
    /\ exit_arg' = code

\* for port in start..end { if bind ok { return Some(port) } } None
FindAvailablePort(start, end, free) ==
    LET cand == {p \in start..(end - 1) : p \in free}
    IN  IF cand = {} THEN NoPort
        ELSE CHOOSE p \in cand : \A q \in cand : p <= q

HasHelp(a) == "--help" \in a \/ "-h" \in a

HasVersion(a) == "--version" \in a \/ "-v" \in a

HasUpdate(a) == "--update" \in a

\* status.map(|s| s.code().unwrap_or(0)).unwrap_or(1)
ForwardedCode(st, c) ==
    IF st = "err" THEN 1 ELSE IF st = "signal" THEN 0 ELSE c

(***************************************************************************)
(* Initial state: the process has just entered main()                      *)
(***************************************************************************)
NoLine == [kind |-> "none", type |-> "none", data |-> FALSE, sub_type |-> "none",
           payload |-> FALSE, url |-> "", png |-> ""]

InitLoginIdle ==
    /\ logged_in = FALSE
    /\ mon_pc = "none"
    /\ info_result = "none"
    /\ ref_pc = "none"
    /\ ref_i = 0
    /\ ref_result = "none"
    /\ ref_late = FALSE
    /\ sse_pc = "none"
    /\ sse_line = NoLine
    /\ qr_calls = 0

\* compare_versions is not being called
InitVerIdle ==
    /\ cv_cur = <<>>
    /\ cv_lat = <<>>
    /\ cv_pc = "idle"
    /\ cv_newer = FALSE

\* run_update has not been entered
InitResIdle ==
    /\ res_pc = "idle"
    /\ res_i = 0
    /\ local_ver = <<>>
    /\ infos = <<>>
    /\ fetch_res = [tag |-> "none"]
    /\ primary_asked = FALSE
    /\ thr = <<>>
    /\ chan = <<>>
    /\ chan_kind = "none"
    /\ rx_n = 0
    /\ abandoned = 0

\* the components run_update installs with download_and_extract
Installed == {"PMHQ", "LLBot"}

\* run_update has not reached its table; nothing on disk has been touched.
\* The build and the .bak file matter from self_update on only: one of each.
InitCoIdle ==
    /\ platform = "unix"
    /\ co_pc = "idle"
    /\ updates = <<>>
    /\ upd_k = 0
    /\ need_self_update = FALSE
    /\ dir_state = [c \in Installed |-> "old"]
    /\ dl_res = [c \in Installed |-> "none"]
    /\ self_res = "none"
    /\ own_exe = "old"
    /\ backup_exe = "none"
    /\ helper = "none"

\* names an installation directory and a package can hold
EntryNames == {"package.json", "llbot.js", "node_modules"}

\* a directory: what each name holds, and whether the scratch file
\* _temp_download.tgz and the scratch directory _temp_extract are present
Dir(ents, tgz, tmp) == [ents |-> ents, tgz |-> tgz, tmp |-> tmp]

\* download_and_extract is not running
InitDlIdle ==
    /\ dl_pc = "idle"
    /\ dl_before = Dir([e \in EntryNames |-> "absent"], FALSE, FALSE)
    /\ dl_dir = Dir([e \in EntryNames |-> "absent"], FALSE, FALSE)
    /\ dl_pkg = {}
    /\ dl_todo = {}
    /\ dl_ret = "none"

\* the worker's two output streams
Streams == {"stdout", "stderr"}

\* no relay thread has been spawned
InitRelayIdle ==
    /\ rl_pc = [s \in Streams |-> "none"]
    /\ rl_written = [s \in Streams |-> <<>>]
    /\ rl_pipe = [s \in Streams |-> <<>>]
    /\ rl_out = [s \in Streams |-> <<>>]

InitRestIdle ==
    InitVerIdle /\ InitResIdle /\ InitCoIdle /\ InitDlIdle /\ InitRelayIdle

InitSup ==
    /\ main_pc = "find_pmhq"
    /\ port_tried = FALSE
    /\ args \in SUBSET ArgUniverse
    /\ fatal = "none"
    /\ exit_arg = 0
    /\ port = NoPort
    /\ exited = FALSE
    /\ exit_kind = "none"
    /\ exit_code = 0
    /\ update_ran = FALSE
    /\ worker = "none"
    /\ worker_code = NoCode
    /\ slot = "None"
    /\ lock = "free"
    /\ observed = "none"
    /\ handler_set = FALSE
    /\ h_pc = "idle"
    /\ h_waited = FALSE
    /\ kill_count = 0
    /\ kill_target = "none"
    /\ kill_result = "none"

Init == InitSup /\ InitLoginIdle /\ InitRestIdle

(***************************************************************************)
(* main(): start-up checks                                                 *)
(***************************************************************************)
FindPmhq_late ==
    /\ ~exited /\ main_pc = "find_pmhq"
    /\ \E found \in BOOLEAN :
         IF found
         THEN /\ main_pc' = "flags"
              /\ UNCHANGED <<fatal, exit_arg>>
         ELSE /\ fatal' = "no_pmhq"
              /\ main_pc' = "flags"
              /\ UNCHANGED exit_arg
    /\ UNCHANGED <<args, port, exited, exit_kind, exit_code, update_ran, worker,
                   worker_code, slot, lock, observed, handler_set, h_pc, h_waited,
                   kill_count, kill_target, kill_result>>
    /\ UNCHANGED loginVars
    /\ UNCHANGED <<port_tried, restVars>>

\* main.rs 96-103
FindPmhq ==
    /\ ~exited /\ main_pc = "find_pmhq"
    /\ \E found \in BOOLEAN :
         IF found
         THEN /\ main_pc' = "flags"
              /\ UNCHANGED <<fatal, exit_arg>>
         ELSE /\ fatal' = "no_pmhq"
              /\ CallWaitExit(1)
    /\ UNCHANGED <<args, port, exited, exit_kind, exit_code, update_ran, worker,
                   worker_code, slot, lock, observed, handler_set, h_pc, h_waited,
                   kill_count, kill_target, kill_result>>
    /\ UNCHANGED loginVars
    /\ UNCHANGED <<port_tried, restVars>>

\* main.rs 106-109 and 112-116: forward --help / --version to pmhq and exit
\* with its code
ForwardFlag ==
    /\ ~exited /\ main_pc = "flags"
    /\ HasHelp(args) \/ HasVersion(args)
    /\ \E st \in {"err", "signal", "code"}, c \in WorkerCodes :
         Exit(ForwardedCode(st, c))
    /\ main_pc' = "done"
    /\ UNCHANGED <<args, fatal, exit_arg, port, update_ran, worker, worker_code,
                   slot, lock, observed, handler_set, h_pc, h_waited, kill_count,
                   kill_target, kill_result>>
    /\ UNCHANGED loginVars
    /\ UNCHANGED <<port_tried, restVars>>

\* main.rs 119-122: updater::run_update, then wait_exit(0).  run_update
\* returns, or (Windows build, updater.rs 580) ends the process itself with
\* exit(0) after handing the self-update to the helper script.
RunUpdate ==
    /\ ~exited /\ main_pc = "flags"
    /\ ~HasHelp(args) /\ ~HasVersion(args) /\ HasUpdate(args)
    /\ update_ran' = TRUE
    /\ \E handoff \in BOOLEAN :
         IF handoff
         THEN /\ Exit(0)
              /\ main_pc' = "done"
              /\ UNCHANGED exit_arg
         ELSE /\ CallWaitExit(0)
              /\ UNCHANGED <<exited, exit_kind, exit_code>>
    /\ UNCHANGED <<args, fatal, port, worker, worker_code, slot, lock, observed,
                   handler_set, h_pc, h_waited, kill_count, kill_target,
                   kill_result>>
    /\ UNCHANGED loginVars
    /\ UNCHANGED <<port_tried, restVars>>

\* main.rs 106-122, none of the launcher-level flags present
NoLauncherFlag ==
    /\ ~exited /\ main_pc = "flags"
    /\ ~HasHelp(args) /\ ~HasVersion(args) /\ ~HasUpdate(args)
    /\ main_pc' = "qq_check"
    /\ UNCHANGED <<args, fatal, exit_arg, port, exited, exit_kind, exit_code,
                   update_ran, worker, worker_code, slot, lock, observed,
                   handler_set, h_pc, h_waited, kill_count, kill_target,
                   kill_result>>
    /\ UNCHANGED loginVars
    /\ UNCHANGED <<port_tried, restVars>>

\* main.rs 125-159: the QQ installation check (Windows builds only) and
\* migrate_old_files.  outcome "pass": non-Windows build, QQ found, or the
\* answer could not be read.
QQCheck ==
    /\ ~exited /\ main_pc = "qq_check"
    /\ \E outcome \in {"pass", "installed", "install_failed", "declined"} :
         CASE outcome = "pass" ->
                /\ main_pc' = "node_check"
                /\ UNCHANGED <<fatal, exit_arg>>
           [] outcome = "installed" ->
                /\ CallWaitExit(0)
                /\ UNCHANGED fatal
           [] outcome = "install_failed" ->
                /\ fatal' = "qq_install_failed"
                /\ CallWaitExit(1)
           [] outcome = "declined" ->
                /\ fatal' = "qq_missing"
                /\ CallWaitExit(1)
    /\ UNCHANGED <<args, port, exited, exit_kind, exit_code, update_ran, worker,
                   worker_code, slot, lock, observed, handler_set, h_pc, h_waited,
                   kill_count, kill_target, kill_result>>
    /\ UNCHANGED loginVars
    /\ UNCHANGED <<port_tried, restVars>>

NodeCheck_warn ==
    /\ ~exited /\ main_pc = "node_check"
    /\ \E exists \in BOOLEAN :
         IF exists
         THEN /\ main_pc' = "llbot_check"
              /\ UNCHANGED <<fatal, exit_arg>>
         ELSE /\ fatal' = "no_node"
              /\ main_pc' = "llbot_check"
              /\ UNCHANGED exit_arg
    /\ UNCHANGED <<args, port, exited, exit_kind, exit_code, update_ran, worker,
                   worker_code, slot, lock, observed, handler_set, h_pc, h_waited,
                   kill_count, kill_target, kill_result>>
    /\ UNCHANGED loginVars
    /\ UNCHANGED <<port_tried, restVars>>

\* main.rs 161-186
NodeCheck ==
    /\ ~exited /\ main_pc = "node_check"
    /\ \E exists \in BOOLEAN :
         IF exists
         THEN /\ main_pc' = "llbot_check"
              /\ UNCHANGED <<fatal, exit_arg>>
         ELSE /\ fatal' = "no_node"
              /\ CallWaitExit(1)
    /\ UNCHANGED <<args, port, exited, exit_kind, exit_code, update_ran, worker,
                   worker_code, slot, lock, observed, handler_set, h_pc, h_waited,
                   kill_count, kill_target, kill_result>>
    /\ UNCHANGED loginVars
    /\ UNCHANGED <<port_tried, restVars>>

\* main.rs 187-193
LlbotCheck ==
    /\ ~exited /\ main_pc = "llbot_check"
    /\ \E exists \in BOOLEAN :
         IF exists
         THEN /\ main_pc' = "port_search"
              /\ UNCHANGED <<fatal, exit_arg>>
         ELSE /\ fatal' = "no_llbot_js"
              /\ CallWaitExit(1)
    /\ UNCHANGED <<args, port, exited, exit_kind, exit_code, update_ran, worker,
                   worker_code, slot, lock, observed, handler_set, h_pc, h_waited,
                   kill_count, kill_target, kill_result>>
    /\ UNCHANGED loginVars
    /\ UNCHANGED <<port_tried, restVars>>

\* main.rs 195-198
PortSearch ==
    /\ ~exited /\ main_pc = "port_search"
    /\ \E free \in SUBSET PortSamples :
         LET p == FindAvailablePort(DEFAULT_PORT, PORT_RANGE_END, free)
         IN  IF p # NoPort
             THEN /\ port' = p
                  /\ main_pc' = "spawn"
                  /\ UNCHANGED <<fatal, exit_arg>>
             ELSE /\ fatal' = "no_port"
                  /\ CallWaitExit(1)
                  /\ UNCHANGED port
    /\ port_tried' = TRUE
    /\ UNCHANGED <<args, exited, exit_kind, exit_code, update_ran, worker,
                   worker_code, slot, lock, observed, handler_set, h_pc, h_waited,
                   kill_count, kill_target, kill_result>>
    /\ UNCHANGED loginVars
    /\ UNCHANGED restVars

\* main.rs 205-232: group_spawn
SpawnWorker ==
    /\ ~exited /\ main_pc = "spawn"
    /\ \E ok \in BOOLEAN :
         IF ok
         THEN /\ worker' = "running"
              /\ main_pc' = "set_handler"
              /\ UNCHANGED <<fatal, exit_arg>>
         ELSE /\ fatal' = "spawn_failed"
              /\ CallWaitExit(1)
              /\ UNCHANGED worker
    /\ UNCHANGED <<args, port, exited, exit_kind, exit_code, update_ran,
                   worker_code, slot, lock, observed, handler_set, h_pc, h_waited,
                   kill_count, kill_target, kill_result>>
    /\ UNCHANGED loginVars
    /\ UNCHANGED <<port_tried, restVars>>

\* main.rs 430-434: the blocked read_line returns and the process exits
WaitExit ==
    /\ ~exited /\ main_pc = "wait_exit"
    /\ Exit(exit_arg)
    /\ main_pc' = "done"
    /\ UNCHANGED <<args, fatal, exit_arg, port, update_ran, worker, worker_code,
                   slot, lock, observed, handler_set, h_pc, h_waited, kill_count,
                   kill_target, kill_result>>
    /\ UNCHANGED loginVars
    /\ UNCHANGED <<port_tried, restVars>>

(***************************************************************************)
(* main(): handler registration, slot hand-over, monitor start             *)
(***************************************************************************)
\* main.rs 234-248: create the empty slot and register the ctrlc handler;
\* set_handler's Result is dropped by .ok()
SetHandler ==
    /\ ~exited /\ main_pc = "set_handler"
    /\ slot' = "None"
    /\ \E ok \in BOOLEAN : handler_set' = ok
    /\ main_pc' = "store_slot"
    /\ UNCHANGED <<args, fatal, exit_arg, port, exited, exit_kind, exit_code,
                   update_ran, worker, worker_code, lock, observed, h_pc,
                   h_waited, kill_count, kill_target, kill_result>>
    /\ UNCHANGED loginVars
    /\ UNCHANGED <<port_tried, restVars>>

\* main.rs 251: *child_arc.lock().unwrap() = Some(child)
StoreSlot ==
    /\ ~exited /\ main_pc = "store_slot"
    /\ lock = "free"
    /\ slot' = "Some"
    /\ main_pc' = "relays"
    /\ UNCHANGED <<args, fatal, exit_arg, port, exited, exit_kind, exit_code,
                   update_ran, worker, worker_code, lock, observed, handler_set,
                   h_pc, h_waited, kill_count, kill_target, kill_result>>
    /\ UNCHANGED loginVars
    /\ UNCHANGED <<port_tried, restVars>>

\* main.rs 252-280: spawn the stdout and stderr relay threads
SpawnRelays ==
    /\ ~exited /\ main_pc = "relays"
    /\ main_pc' = "start_monitor"
    /\ rl_pc' = [s \in Streams |-> "run"]
    /\ UNCHANGED <<args, fatal, exit_arg, port, exited, exit_kind, exit_code,
                   update_ran, worker, worker_code, slot, lock, observed,
                   handler_set, h_pc, h_waited, kill_count, kill_target,
                   kill_result>>
    /\ UNCHANGED loginVars
    /\ UNCHANGED <<rl_written, rl_pipe, rl_out>>
    /\ UNCHANGED <<port_tried, verVars, resVars, coVars, dlVars>>

\* main.rs 282-286 and 313-319: create the flag, spawn the monitor thread
StartMonitor ==
    /\ ~exited /\ main_pc = "start_monitor"
    /\ logged_in' = FALSE
    /\ mon_pc' = "sleep"
    /\ main_pc' = "wait_sleep"
    /\ UNCHANGED <<args, fatal, exit_arg, port, exited, exit_kind, exit_code,
                   update_ran, worker, worker_code, slot, lock, observed,
                   handler_set, h_pc, h_waited, kill_count, kill_target,
                   kill_result>>
    /\ UNCHANGED <<info_result, ref_pc, ref_i, ref_result, ref_late, sse_pc,
                   sse_line, qr_calls>>
    /\ UNCHANGED <<port_tried, restVars>>

(***************************************************************************)
(* main(): the wait loop                                                   *)
(***************************************************************************)
\* main.rs 290
WaitSleep ==
    /\ ~exited /\ main_pc = "wait_sleep"
    /\ main_pc' = "wait_lock"
    /\ UNCHANGED <<args, fatal, exit_arg, port, exited, exit_kind, exit_code,
                   update_ran, worker, worker_code, slot, lock, observed,
                   handler_set, h_pc, h_waited, kill_count, kill_target,
                   kill_result>>
    /\ UNCHANGED loginVars
    /\ UNCHANGED <<port_tried, restVars>>

\* main.rs 291: child_for_wait.lock()
WaitLock ==
    /\ ~exited /\ main_pc = "wait_lock"
    /\ lock = "free"
    /\ lock' = "main"
    /\ main_pc' = "wait_try"
    /\ UNCHANGED <<args, fatal, exit_arg, port, exited, exit_kind, exit_code,
                   update_ran, worker, worker_code, slot, observed, handler_set,
                   h_pc, h_waited, kill_count, kill_target, kill_result>>
    /\ UNCHANGED loginVars
    /\ UNCHANGED <<port_tried, restVars>>

\* main.rs 292-309: try_wait under the lock; the guard is dropped when the
\* `if let` block is left, by `break` as well
WaitTry ==
    /\ ~exited /\ main_pc = "wait_try"
    /\ lock = "main"
    /\ lock' = "free"
    /\ IF slot = "Some"
       THEN \E io_err \in BOOLEAN :
              IF io_err
              THEN \* Err(e) => break
                   /\ observed' = "error"
                   /\ main_pc' = "returned"
                   /\ UNCHANGED worker
              ELSE IF worker = "running"
              THEN \* Ok(None) => {}
                   /\ main_pc' = "wait_sleep"
                   /\ UNCHANGED <<observed, worker>>
              ELSE \* Ok(Some(status)) => break
                   /\ worker' = "reaped"
                   /\ observed' = "status"
                   /\ main_pc' = "returned"
       ELSE /\ observed' = "empty"
            /\ main_pc' = "returned"
            /\ UNCHANGED worker
    /\ UNCHANGED <<args, fatal, exit_arg, port, exited, exit_kind, exit_code,
                   update_ran, worker_code, slot, handler_set, h_pc, h_waited,
                   kill_count, kill_target, kill_result>>
    /\ UNCHANGED loginVars
    /\ UNCHANGED <<port_tried, restVars>>

\* main.rs 311: main returns, the runtime exits the process with code 0
MainReturn ==
    /\ ~exited /\ main_pc = "returned"
    /\ Exit(0)
    /\ main_pc' = "done"
    /\ UNCHANGED <<args, fatal, exit_arg, port, update_ran, worker, worker_code,
                   slot, lock, observed, handler_set, h_pc, h_waited, kill_count,
                   kill_target, kill_result>>
    /\ UNCHANGED loginVars
    /\ UNCHANGED <<port_tried, restVars>>

(***************************************************************************)
(* Environment: the worker process and the interrupt signal                *)
(***************************************************************************)
\* the worker terminates on its own with exit code c
WorkerExit ==
    /\ ~exited /\ worker = "running"
    /\ \E c \in WorkerCodes : worker_code' = c
    /\ worker' = "exited"
    /\ UNCHANGED <<main_pc, args, fatal, exit_arg, port, exited, exit_kind,
                   exit_code, update_ran, slot, lock, observed, handler_set,
                   h_pc, h_waited, kill_count, kill_target, kill_result>>
    /\ UNCHANGED loginVars
    /\ UNCHANGED <<port_tried, restVars>>

\* an interrupt while no handler is registered: the default disposition
\* terminates the launcher
InterruptDefault ==
    /\ ~exited /\ ~handler_set
    /\ exited' = TRUE
    /\ exit_kind' = "signal"
    /\ UNCHANGED <<main_pc, args, fatal, exit_arg, port, exit_code, update_ran,
                   worker, worker_code, slot, lock, observed, handler_set, h_pc,
                   h_waited, kill_count, kill_target, kill_result>>
    /\ UNCHANGED loginVars
    /\ UNCHANGED <<port_tried, restVars>>

\* an interrupt with the handler registered: the ctrlc thread calls the closure
InterruptHandled ==
    /\ ~exited /\ handler_set /\ h_pc = "idle"
    /\ h_pc' = "lock"
    /\ UNCHANGED <<main_pc, args, fatal, exit_arg, port, exited, exit_kind,
                   exit_code, update_ran, worker, worker_code, slot, lock,
                   observed, handler_set, h_waited, kill_count, kill_target,
                   kill_result>>
    /\ UNCHANGED loginVars
    /\ UNCHANGED <<port_tried, restVars>>

(***************************************************************************)
(* The ctrlc handler closure, main.rs 237-244                              *)
(***************************************************************************)
\* main.rs 238: lock() returns at once when the mutex is free
HandlerAcquire ==
    /\ ~exited /\ h_pc \in {"lock", "waiting"}
    /\ lock = "free"
    /\ lock' = "handler"
    /\ h_pc' = "locked"
    /\ UNCHANGED <<main_pc, args, fatal, exit_arg, port, exited, exit_kind,
                   exit_code, update_ran, worker, worker_code, slot, observed,
                   handler_set, h_waited, kill_count, kill_target, kill_result>>
    /\ UNCHANGED loginVars
    /\ UNCHANGED <<port_tried, restVars>>

HandlerBlock_skip ==
    /\ ~exited /\ h_pc = "lock"
    /\ lock # "free"
    /\ h_pc' = "exit"
    /\ h_waited' = TRUE
    /\ UNCHANGED <<main_pc, args, fatal, exit_arg, port, exited, exit_kind,
                   exit_code, update_ran, worker, worker_code, slot, lock,
                   observed, handler_set, kill_count, kill_target, kill_result>>
    /\ UNCHANGED loginVars
    /\ UNCHANGED <<port_tried, restVars>>

\* main.rs 238: lock() blocks while the wait loop holds the mutex
HandlerBlock ==
    /\ ~exited /\ h_pc = "lock"
    /\ lock # "free"
    /\ h_pc' = "waiting"
    /\ h_waited' = TRUE
    /\ UNCHANGED <<main_pc, args, fatal, exit_arg, port, exited, exit_kind,
                   exit_code, update_ran, worker, worker_code, slot, lock,
                   observed, handler_set, kill_count, kill_target, kill_result>>
    /\ UNCHANGED loginVars
    /\ UNCHANGED <<port_tried, restVars>>

\* the Result of GroupChild::kill: Ok on a live group; on a group that has
\* already exited the outcome is the platform's (Ok or Err)
KillOutcomes(w) == IF w = "running" THEN {"ok"} ELSE {"ok", "err"}

\* main.rs 239-242: kill the group if the slot holds a handle, drop the guard
HandlerKill ==
    /\ ~exited /\ h_pc = "locked"
    /\ lock = "handler"
    /\ lock' = "free"
    /\ h_pc' = "exit"
    /\ IF slot = "Some"
       THEN /\ kill_count' = kill_count + 1
            /\ kill_target' = worker
            /\ \E r \in KillOutcomes(worker) : kill_result' = r
            /\ IF worker = "running"
               THEN worker' = "exited" /\ worker_code' = NoCode
               ELSE UNCHANGED <<worker, worker_code>>
       ELSE UNCHANGED <<kill_count, kill_target, kill_result, worker, worker_code>>
    /\ UNCHANGED <<main_pc, args, fatal, exit_arg, port, exited, exit_kind,
                   exit_code, update_ran, slot, observed, handler_set, h_waited>>
    /\ UNCHANGED loginVars
    /\ UNCHANGED <<port_tried, restVars>>

HandlerExit_err ==
    /\ ~exited /\ h_pc = "exit"
    /\ Exit(IF kill_result = "err" THEN 1 ELSE 0)
    /\ h_pc' = "done"
    /\ UNCHANGED <<main_pc, args, fatal, exit_arg, port, update_ran, worker,
                   worker_code, slot, lock, observed, handler_set, h_waited,
                   kill_count, kill_target, kill_result>>
    /\ UNCHANGED loginVars
    /\ UNCHANGED <<port_tried, restVars>>

\* main.rs 243: std::process::exit(0)
HandlerExit ==
    /\ ~exited /\ h_pc = "exit"
    /\ Exit(0)
    /\ h_pc' = "done"
    /\ UNCHANGED <<main_pc, args, fatal, exit_arg, port, update_ran, worker,
                   worker_code, slot, lock, observed, handler_set, h_waited,
                   kill_count, kill_target, kill_result>>
    /\ UNCHANGED loginVars
    /\ UNCHANGED <<port_tried, restVars>>

(***************************************************************************)
(* The launcher and supervisor                                             *)
(***************************************************************************)
NextSup ==
    \/ FindPmhq
    \/ ForwardFlag
    \/ RunUpdate
    \/ NoLauncherFlag
    \/ QQCheck
    \/ NodeCheck
    \/ LlbotCheck
    \/ PortSearch
    \/ SpawnWorker
    \/ WaitExit
    \/ SetHandler
    \/ StoreSlot
    \/ SpawnRelays
    \/ StartMonitor
    \/ WaitSleep
    \/ WaitLock
    \/ WaitTry
    \/ MainReturn
    \/ WorkerExit
    \/ InterruptDefault
    \/ InterruptHandled
    \/ HandlerAcquire
    \/ HandlerBlock
    \/ HandlerKill
    \/ HandlerExit

SpecSup == Init /\ [][NextSup]_vars

(***************************************************************************)
(* Push-stream lines, pmhq_client.rs 171-232                               *)
(***************************************************************************)
TypeLogin == "nodeIKernelLoginListener"

TypeSession == "nodeIQQNTWrapperSessionListener"

TypeAccountReady == "account_ready"

SubQr == "onQRCodeGetPicture"

SubInit == "onSessionInitComplete"

\* values of the "type" member: absent, the three recognised tags, another tag
Types == {"none", TypeLogin, TypeSession, TypeAccountReady, "other"}

\* values of data.sub_type: absent or not a string, the two recognised, another
SubTypes == {"none", SubQr, SubInit, "other"}

\* a line "data: {...}" that parses as SSEData
Frame(t, d, s, pl, u, p) ==
    [kind |-> "frame", type |-> t, data |-> d, sub_type |-> s,
     payload |-> pl, url |-> u, png |-> p]

Other(k) ==
    [kind |-> k, type |-> "none", data |-> FALSE, sub_type |-> "none",
     payload |-> FALSE, url |-> "", png |-> ""]

\* what one step of reader.lines() can yield: a line without the "data: "
\* prefix, a prefixed line that is not valid SSEData JSON, a frame, a read
\* error, or the end of the stream.  The inner data object (qrcodeUrl,
\* pngBase64QrcodeData) is only read under sub_type onQRCodeGetPicture, so
\* it is varied there.
Lines ==
    {Other("nodata"), Other("badjson")}
    \cup {Frame(t, FALSE, "none", FALSE, "", "") : t \in Types}
    \cup {Frame(t, TRUE, s, FALSE, "", "") : t \in Types, s \in SubTypes}
    \cup {Frame(t, TRUE, SubQr, TRUE, q[1], q[2]) :
            t \in Types,
            q \in {<<"", "png">>, <<"url", "">>, <<"url", "png">>}}

Items == Lines \cup {Other("err"), Other("end")}

\* pmhq_client.rs 188-205: the QR branch reaches on_qrcode
QrReady(l) ==
    /\ l.type = TypeLogin
    /\ l.data
    /\ l.sub_type = SubQr
    /\ l.payload
    /\ l.url # ""

SessionInit_nosub(l) == l.type = TypeSession /\ l.data

\* pmhq_client.rs 214-220
SessionInit(l) ==
    /\ l.type = TypeSession
    /\ l.data
    /\ l.sub_type = SubInit

\* pmhq_client.rs 228
AccountReady(l) == l.type = TypeAccountReady

(***************************************************************************)
(* start_login_listener: the monitor thread, main.rs 319-376               *)
(***************************************************************************)
\* main.rs 320-322
MonSleep ==
    /\ ~exited /\ mon_pc = "sleep"
    /\ mon_pc' = "spawn_refresh"
    /\ UNCHANGED <<logged_in, info_result, ref_pc, ref_i, ref_result, ref_late,
                   sse_pc, sse_line, qr_calls>>
    /\ UNCHANGED supVars
    /\ UNCHANGED restVars

\* main.rs 324-341: spawn the refresh thread, enter start_sse_listener
MonSpawnRefresh ==
    /\ ~exited /\ mon_pc = "spawn_refresh"
    /\ ref_pc' = "check"
    /\ sse_pc' = "check"
    /\ mon_pc' = "listen"
    /\ UNCHANGED <<logged_in, info_result, ref_i, ref_result, ref_late, sse_line,
                   qr_calls>>
    /\ UNCHANGED supVars
    /\ UNCHANGED restVars

MonReport_early ==
    /\ ~exited /\ mon_pc = "listen"
    /\ mon_pc' = "self_info"
    /\ UNCHANGED <<logged_in, info_result, ref_pc, ref_i, ref_result, ref_late,
                   sse_pc, sse_line, qr_calls>>
    /\ UNCHANGED supVars
    /\ UNCHANGED restVars

\* main.rs 362: the reporter reads the flag after the listener returned
MonReport ==
    /\ ~exited /\ mon_pc = "listen" /\ sse_pc = "done"
    /\ mon_pc' = IF logged_in THEN "self_info" ELSE "done"
    /\ UNCHANGED <<logged_in, info_result, ref_pc, ref_i, ref_result, ref_late,
                   sse_pc, sse_line, qr_calls>>
    /\ UNCHANGED supVars
    /\ UNCHANGED restVars

MonSelfInfo_reset ==
    /\ ~exited /\ mon_pc = "self_info"
    /\ \E r \in {"ok", "err", "no_uin"} :
         /\ info_result' = r
         /\ logged_in' = (r = "ok")
    /\ mon_pc' = "done"
    /\ UNCHANGED <<ref_pc, ref_i, ref_result, ref_late, sse_pc, sse_line,
                   qr_calls>>
    /\ UNCHANGED supVars
    /\ UNCHANGED restVars

\* main.rs 367-374: get_self_info, an Err is ignored; pmhq_client.rs 103-129:
\* Err when the call fails ("err") or when the uin is empty ("no_uin")
MonSelfInfo ==
    /\ ~exited /\ mon_pc = "self_info"
    /\ \E r \in {"ok", "err", "no_uin"} : info_result' = r
    /\ mon_pc' = "done"
    /\ UNCHANGED <<logged_in, ref_pc, ref_i, ref_result, ref_late, sse_pc,
                   sse_line, qr_calls>>
    /\ UNCHANGED supVars
    /\ UNCHANGED restVars

(***************************************************************************)
(* The refresh loop thread, main.rs 326-339                                *)
(***************************************************************************)
RefCheck_noflag ==
    /\ ~exited /\ ref_pc = "check"
    /\ ref_pc' = "request"
    /\ UNCHANGED <<logged_in, mon_pc, info_result, ref_i, ref_result, ref_late,
                   sse_pc, sse_line, qr_calls>>
    /\ UNCHANGED supVars
    /\ UNCHANGED restVars

\* main.rs 328-330
RefCheck ==
    /\ ~exited /\ ref_pc = "check"
    /\ ref_pc' = IF logged_in THEN "done" ELSE "request"
    /\ UNCHANGED <<logged_in, mon_pc, info_result, ref_i, ref_result, ref_late,
                   sse_pc, sse_line, qr_calls>>
    /\ UNCHANGED supVars
    /\ UNCHANGED restVars

RefRequest_stop ==
    /\ ~exited /\ ref_pc = "request"
    /\ \E r \in {"ok", "err"} :
         /\ ref_result' = r
         /\ ref_pc' = IF r = "err" THEN "done" ELSE "win_check"
    /\ ref_late' = (ref_late \/ logged_in)
    /\ ref_i' = 0
    /\ UNCHANGED <<logged_in, mon_pc, info_result, sse_pc, sse_line, qr_calls>>
    /\ UNCHANGED supVars
    /\ UNCHANGED restVars

\* main.rs 331-332: let _ = request_qrcode(); then the window starts at 0
RefRequest ==
    /\ ~exited /\ ref_pc = "request"
    /\ \E r \in {"ok", "err"} : ref_result' = r
    /\ ref_late' = (ref_late \/ logged_in)
    /\ ref_i' = 0
    /\ ref_pc' = "win_check"
    /\ UNCHANGED <<logged_in, mon_pc, info_result, sse_pc, sse_line, qr_calls>>
    /\ UNCHANGED supVars
    /\ UNCHANGED restVars

RefWinCheck_noflag ==
    /\ ~exited /\ ref_pc = "win_check"
    /\ ref_pc' = IF ref_i >= SleepChecks THEN "check" ELSE "win_sleep"
    /\ UNCHANGED <<logged_in, mon_pc, info_result, ref_i, ref_result, ref_late,
                   sse_pc, sse_line, qr_calls>>
    /\ UNCHANGED supVars
    /\ UNCHANGED restVars

\* main.rs 332-335: the range is exhausted, or the flag is set, or sleep
RefWinCheck ==
    /\ ~exited /\ ref_pc = "win_check"
    /\ ref_pc' = IF ref_i >= SleepChecks \/ logged_in THEN "check" ELSE "win_sleep"
    /\ UNCHANGED <<logged_in, mon_pc, info_result, ref_i, ref_result, ref_late,
                   sse_pc, sse_line, qr_calls>>
    /\ UNCHANGED supVars
    /\ UNCHANGED restVars

\* main.rs 336
RefWinSleep ==
    /\ ~exited /\ ref_pc = "win_sleep"
    /\ ref_i' = ref_i + 1
    /\ ref_pc' = "win_check"
    /\ UNCHANGED <<logged_in, mon_pc, info_result, ref_result, ref_late, sse_pc,
                   sse_line, qr_calls>>
    /\ UNCHANGED supVars
    /\ UNCHANGED restVars

(***************************************************************************)
(* start_sse_listener, pmhq_client.rs 153-240                              *)
(***************************************************************************)
\* pmhq_client.rs 160-162
SseLoopCheck ==
    /\ ~exited /\ sse_pc = "check"
    /\ sse_pc' = IF logged_in THEN "done" ELSE "connect"
    /\ UNCHANGED <<logged_in, mon_pc, info_result, ref_pc, ref_i, ref_result,
                   ref_late, sse_line, qr_calls>>
    /\ UNCHANGED supVars
    /\ UNCHANGED restVars

SseConnect_giveup ==
    /\ ~exited /\ sse_pc = "connect"
    /\ \E ok \in BOOLEAN : sse_pc' = IF ok THEN "read" ELSE "done"
    /\ sse_line' = NoLine
    /\ UNCHANGED <<logged_in, mon_pc, info_result, ref_pc, ref_i, ref_result,
                   ref_late, qr_calls>>
    /\ UNCHANGED supVars
    /\ UNCHANGED restVars

\* pmhq_client.rs 164-170, 235
SseConnect ==
    /\ ~exited /\ sse_pc = "connect"
    /\ \E ok \in BOOLEAN : sse_pc' = IF ok THEN "read" ELSE "backoff"
    /\ sse_line' = NoLine
    /\ UNCHANGED <<logged_in, mon_pc, info_result, ref_pc, ref_i, ref_result,
                   ref_late, qr_calls>>
    /\ UNCHANGED supVars
    /\ UNCHANGED restVars

\* pmhq_client.rs 236
SseBackoff ==
    /\ ~exited /\ sse_pc = "backoff"
    /\ sse_pc' = "check"
    /\ UNCHANGED <<logged_in, mon_pc, info_result, ref_pc, ref_i, ref_result,
                   ref_late, sse_line, qr_calls>>
    /\ UNCHANGED supVars
    /\ UNCHANGED restVars

SseReadLine_noreturn ==
    /\ ~exited /\ sse_pc = "read"
    /\ \E item \in Items :
         /\ (item.kind = "frame" /\ QrReady(item)) => qr_calls < MaxQrCalls
         /\ sse_line' = item
         /\ IF item.kind = "end"
            THEN sse_pc' = "check" /\ UNCHANGED <<logged_in, qr_calls>>
            ELSE IF item.kind = "err"
            THEN sse_pc' = "check" /\ UNCHANGED <<logged_in, qr_calls>>
            ELSE IF item.kind # "frame"
            THEN sse_pc' = "read" /\ UNCHANGED <<logged_in, qr_calls>>
            ELSE /\ qr_calls' = IF QrReady(item) THEN qr_calls + 1 ELSE qr_calls
                 /\ IF SessionInit(item) \/ AccountReady(item)
                    THEN logged_in' = TRUE /\ sse_pc' = "read"
                    ELSE sse_pc' = "read" /\ UNCHANGED logged_in
    /\ UNCHANGED <<mon_pc, info_result, ref_pc, ref_i, ref_result, ref_late>>
    /\ UNCHANGED supVars
    /\ UNCHANGED restVars

\* pmhq_client.rs 171-233: one iteration of `for line in reader.lines()`
SseReadLine ==
    /\ ~exited /\ sse_pc = "read"
    /\ \E item \in Items :
         /\ (item.kind = "frame" /\ QrReady(item)) => qr_calls < MaxQrCalls
         /\ sse_line' = item
         /\ IF item.kind = "end"
            THEN \* the iterator is exhausted: back to the top of the loop
                 sse_pc' = "check" /\ UNCHANGED <<logged_in, qr_calls>>
            ELSE IF logged_in
            THEN \* 172-174
                 sse_pc' = "done" /\ UNCHANGED <<logged_in, qr_calls>>
            ELSE IF item.kind = "err"
            THEN \* 176-179: break
                 sse_pc' = "check" /\ UNCHANGED <<logged_in, qr_calls>>
            ELSE IF item.kind # "frame"
            THEN \* 181-186: no prefix, or from_str failed
                 sse_pc' = "read" /\ UNCHANGED <<logged_in, qr_calls>>
            ELSE /\ qr_calls' = IF QrReady(item) THEN qr_calls + 1 ELSE qr_calls
                 /\ IF SessionInit(item) \/ AccountReady(item)
                    THEN logged_in' = TRUE /\ sse_pc' = "done"
                    ELSE sse_pc' = "read" /\ UNCHANGED logged_in
    /\ UNCHANGED <<mon_pc, info_result, ref_pc, ref_i, ref_result, ref_late>>
    /\ UNCHANGED supVars
    /\ UNCHANGED restVars

(***************************************************************************)
(* The login session monitor on its own, from the state in which           *)
(* start_login_listener has just spawned the monitor thread                *)
(***************************************************************************)
InitLogin ==
    /\ InitVerIdle /\ InitResIdle /\ InitCoIdle /\ InitDlIdle
    /\ rl_pc = [s \in Streams |-> "run"]
    /\ rl_written = [s \in Streams |-> <<>>]
    /\ rl_pipe = [s \in Streams |-> <<>>]
    /\ rl_out = [s \in Streams |-> <<>>]
    /\ port_tried = TRUE
    /\ main_pc = "wait_sleep"
    /\ args = {}
    /\ fatal = "none"
    /\ exit_arg = 0
    /\ port = DEFAULT_PORT
    /\ exited = FALSE
    /\ exit_kind = "none"
    /\ exit_code = 0
    /\ update_ran = FALSE
    /\ worker = "running"
    /\ worker_code = NoCode
    /\ slot = "Some"
    /\ lock = "free"
    /\ observed = "none"
    /\ handler_set = TRUE
    /\ h_pc = "idle"
    /\ h_waited = FALSE
    /\ kill_count = 0
    /\ kill_target = "none"
    /\ kill_result = "none"
    /\ logged_in = FALSE
    /\ mon_pc = "sleep"
    /\ info_result = "none"
    /\ ref_pc = "none"
    /\ ref_i = 0
    /\ ref_result = "none"
    /\ ref_late = FALSE
    /\ sse_pc = "none"
    /\ sse_line = NoLine
    /\ qr_calls = 0

NextLogin ==
    \/ MonSleep
    \/ MonSpawnRefresh
    \/ MonReport
    \/ MonSelfInfo
    \/ RefCheck
    \/ RefRequest
    \/ RefWinCheck
    \/ RefWinSleep
    \/ SseLoopCheck
    \/ SseConnect
    \/ SseBackoff
    \/ SseReadLine

SpecLogin == InitLogin /\ [][NextLogin]_vars

\* For the progress properties the stream carries one line of each kind the
\* listener tells apart: a line it skips, a QR frame, the two login frames,
\* a read error, the end of the stream.
SseReadProgress ==
    /\ SseReadLine
    /\ sse_line' \in { Other("nodata"), Other("err"), Other("end"),
                       Frame(TypeLogin, TRUE, SubQr, TRUE, "url", "png"),
                       Frame(TypeSession, TRUE, SubInit, FALSE, "", ""),
                       Frame(TypeAccountReady, FALSE, "none", FALSE, "", "") }

\* the threads of the monitor, each scheduled again and again: the monitor
\* thread itself, the listener it runs, and the refresh thread; every
\* blocking call in them has a timeout
NextLoginFair ==
    \/ MonSleep
    \/ MonSpawnRefresh
    \/ MonReport
    \/ MonSelfInfo
    \/ RefCheck
    \/ RefRequest
    \/ RefWinCheck
    \/ RefWinSleep
    \/ SseLoopCheck
    \/ SseConnect
    \/ SseBackoff
    \/ SseReadProgress

SpecLoginFair ==
    /\ InitLogin
    /\ [][NextLoginFair]_vars
    /\ WF_vars(MonSleep \/ MonSpawnRefresh \/ MonReport \/ MonSelfInfo)
    /\ WF_vars(SseLoopCheck \/ SseConnect \/ SseBackoff \/ SseReadProgress)
    /\ WF_vars(RefCheck \/ RefRequest \/ RefWinCheck \/ RefWinSleep)

(***************************************************************************)
(* The wait loop of main together with the login monitor, main.rs 284-311, *)
(* from the state in which start_login_listener has just returned; no      *)
(* interrupt arrives.  The main thread is scheduled again and again: its   *)
(* sleep is 100 ms and the lock is held by nobody else.                    *)
(***************************************************************************)
NextRun ==
    \/ WaitSleep
    \/ WaitLock
    \/ WaitTry
    \/ MainReturn
    \/ WorkerExit
    \/ NextLoginFair

SpecRun ==
    /\ InitLogin
    /\ [][NextRun]_vars
    /\ WF_vars(WaitSleep \/ WaitLock \/ WaitTry \/ MainReturn)

(***************************************************************************)
(* The relay threads, main.rs 254-280, with the worker that writes and the *)
(* wait loop that ends the process, 288-311.                               *)
(***************************************************************************)
\* most lines the worker writes to one stream
MaxLines == 2

\* a line that is not valid UTF-8: reader.lines() yields Err for it
NotUtf8 == "not-utf8"

\* the worker writes one more line to a stream
WorkerWrite ==
    /\ ~exited /\ worker = "running"
    /\ \E s \in Streams, l \in {"a", "b", NotUtf8} :
         /\ Len(rl_written[s]) < MaxLines
         /\ rl_written' = [rl_written EXCEPT ![s] = Append(@, l)]
         /\ rl_pipe' = [rl_pipe EXCEPT ![s] = Append(@, l)]
    /\ UNCHANGED <<rl_pc, rl_out>>
    /\ UNCHANGED <<supVars, loginVars, verVars, resVars, coVars, dlVars>>

\* main.rs 259-264, 272-277: the next item of reader.lines(); an Ok line is
\* written and flushed, an Err is skipped
RelayLine ==
    /\ ~exited
    /\ \E s \in Streams :
         /\ rl_pc[s] = "run"
         /\ rl_pipe[s] # <<>>
         /\ rl_pipe' = [rl_pipe EXCEPT ![s] = Tail(@)]
         /\ rl_out' = IF Head(rl_pipe[s]) = NotUtf8
                       THEN rl_out
                       ELSE [rl_out EXCEPT ![s] = Append(@, Head(rl_pipe[s]))]
    /\ UNCHANGED <<rl_pc, rl_written>>
    /\ UNCHANGED <<supVars, loginVars, verVars, resVars, coVars, dlVars>>

\* main.rs 259, 272: the pipe is empty and its write end is closed, the for
\* loop and the thread end, the lock on the launcher's stream is released
RelayEof ==
    /\ ~exited
    /\ \E s \in Streams :
         /\ rl_pc[s] = "run"
         /\ rl_pipe[s] = <<>>
         /\ worker # "running"
         /\ rl_pc' = [rl_pc EXCEPT ![s] = "done"]
    /\ UNCHANGED <<rl_written, rl_pipe, rl_out>>
    /\ UNCHANGED <<supVars, loginVars, verVars, resVars, coVars, dlVars>>

\* main.rs 296 and 303: the wait loop prints to stderr before its break when
\* the status is not a success or try_wait failed; eprintln waits for the
\* lock that the stderr relay thread holds from 271 until it ends
MainReturnRelay ==
    /\ MainReturn
    /\ (\/ observed = "error"
        \/ observed = "status" /\ worker_code # 0)
       => rl_pc["stderr"] # "run"

NextRelay ==
    \/ WaitSleep
    \/ WaitLock
    \/ WaitTry
    \/ MainReturnRelay
    \/ WorkerExit
    \/ WorkerWrite
    \/ RelayLine
    \/ RelayEof

\* the relay threads and the main thread are scheduled again and again
SpecRelay ==
    /\ InitLogin
    /\ [][NextRelay]_vars
    /\ WF_vars(RelayLine \/ RelayEof)
    /\ WF_vars(WaitSleep \/ WaitLock \/ WaitTry \/ MainReturnRelay)

(***************************************************************************)
(* Version strings, updater.rs 169-191.  A string is a sequence of         *)
(* characters, each character a one-element string.                        *)
(***************************************************************************)
Digits == <<"0", "1", "2", "3", "4", "5", "6", "7", "8", "9">>

DigitSet == {Digits[i] : i \in DOMAIN Digits}

DigitVal(ch) == (CHOOSE i \in DOMAIN Digits : Digits[i] = ch) - 1

\* u32::MAX, 4294967295, as a numeral
U32MaxDigits == <<"4", "2", "9", "4", "9", "6", "7", "2", "9", "5">>

\* the sentinel of get_local_version when no version can be read: the three
\* characters U+672A U+5B89 U+88C5
NOT_INSTALLED == <<"U+672A", "U+5B89", "U+88C5">>

\* the sentinel of check_update and get_local_version for "unknown": the two
\* characters U+672A U+77E5
UNKNOWN_VERSION == <<"U+672A", "U+77E5">>

\* str::trim_start_matches(ch)
RECURSIVE TrimStart(_, _)
TrimStart(str, ch) ==
    IF str # <<>> /\ Head(str) = ch THEN TrimStart(Tail(str), ch) ELSE str

\* str::split(sep), collected: always at least one piece
RECURSIVE SplitOn(_, _)
SplitOn(str, sep) ==
    IF \E i \in 1..Len(str) : str[i] = sep
    THEN LET i == CHOOSE k \in 1..Len(str) :
                    str[k] = sep /\ \A j \in 1..(k - 1) : str[j] # sep
         IN  <<SubSeq(str, 1, i - 1)>> \o SplitOn(SubSeq(str, i + 1, Len(str)), sep)
    ELSE <<str>>

\* s.split('-').next(): the piece before the first '-'
BeforeDash(seg) == Head(SplitOn(seg, "-"))

RECURSIVE StripZeros(_)
StripZeros(d) ==
    IF d # <<>> /\ Head(d) = "0" THEN StripZeros(Tail(d)) ELSE d

\* numerals of equal length: a <= b digit by digit
RECURSIVE LexLeq(_, _)
LexLeq(a, b) ==
    IF a = <<>> THEN TRUE
    ELSE IF DigitVal(Head(a)) < DigitVal(Head(b)) THEN TRUE
    ELSE IF DigitVal(Head(a)) > DigitVal(Head(b)) THEN FALSE
    ELSE LexLeq(Tail(a), Tail(b))

\* the digits of a string accepted by u32::from_str: an optional '+', then
\* one or more ASCII digits
U32Body(t) == IF t # <<>> /\ Head(t) = "+" THEN Tail(t) ELSE t

\* str::parse::<u32>() is Ok: digits only, and the value fits in 32 bits
IsU32(t) ==
    LET d == U32Body(t)
        n == StripZeros(d)
    IN  /\ d # <<>>
        /\ \A i \in 1..Len(d) : d[i] \in DigitSet
        /\ \/ Len(n) < Len(U32MaxDigits)
           \/ Len(n) = Len(U32MaxDigits) /\ LexLeq(n, U32MaxDigits)

RECURSIVE DigitsVal(_, _)
DigitsVal(d, acc) ==
    IF d = <<>> THEN acc ELSE DigitsVal(Tail(d), acc * Len(Digits) + DigitVal(Head(d)))

\* the value of str::parse::<u32>() when it is Ok
U32Val(t) == DigitsVal(U32Body(t), 0)

\* .filter_map(|s| s.split('-').next()?.parse().ok()).collect()
RECURSIVE FilterParse(_)
FilterParse(segs) ==
    IF segs = <<>> THEN <<>>
    ELSE LET h == BeforeDash(Head(segs))
         IN  IF IsU32(h)
             THEN <<U32Val(h)>> \o FilterParse(Tail(segs))
             ELSE FilterParse(Tail(segs))

\* updater.rs 170-176: the closure parse_version
parse_version(v) ==
    FilterParse(SplitOn(TrimStart(TrimStart(v, "v"), "V"), "."))

\* parts.get(i).copied().unwrap_or(0), i counted from 1
PartAt(parts, i) == IF i <= Len(parts) THEN parts[i] ELSE 0

MaxOf(a, b) == IF a >= b THEN a ELSE b

\* updater.rs 181-190: the loop over 0..max(len), from position i on
RECURSIVE CompareFrom(_, _, _)
CompareFrom(cp, lp, i) ==
    IF i > MaxOf(Len(cp), Len(lp)) THEN FALSE
    ELSE IF PartAt(lp, i) > PartAt(cp, i) THEN TRUE
    ELSE IF PartAt(lp, i) < PartAt(cp, i) THEN FALSE
    ELSE CompareFrom(cp, lp, i + 1)

compare_versions_ne(current, latest) ==
    parse_version(current) # parse_version(latest)

\* updater.rs 169-191
compare_versions(current, latest) ==
    CompareFrom(parse_version(current), parse_version(latest), 1)

(***************************************************************************)
(* compare_versions on its own: the two arguments are drawn from version   *)
(* strings of up to MaxSegs dot-separated segments, with or without a      *)
(* leading v, and from the strings the program and its tests name          *)
(***************************************************************************)
\* most segments in a drawn version string
MaxSegs == 2

\* segment texts: empty, numerals (one with two digits), a word, a numeral
\* with a pre-release suffix
SegTokens == {<<>>, <<"0">>, <<"2">>, <<"1", "0">>, <<"x">>, <<"1", "-", "x">>}

RECURSIVE JoinDots(_)
JoinDots(segs) ==
    IF Len(segs) = 1 THEN Head(segs)
    ELSE Head(segs) \o <<".">> \o JoinDots(Tail(segs))

SampleVersions ==
    { <<"1", ".", "2", ".", "0">>,
      <<"1", ".", "1", "0", ".", "0">>,
      <<"2", ".", "0", ".", "0">>,
      <<"0", ".", "0", ".", "0">>,
      <<"V", "v", "2">>,
      <<"+", "2">>,
      <<"4", "2", "9", "4", "9", "6", "7", "2", "9", "6">>,
      NOT_INSTALLED,
      UNKNOWN_VERSION }

Versions ==
    { pre \o JoinDots(f) :
        pre \in {<<>>, <<"v">>},
        f \in UNION {[1..k -> SegTokens] : k \in 1..MaxSegs} }
    \cup SampleVersions

\* main is about to call run_update: --update given, worker binary found
InitSupAtUpdate ==
    /\ main_pc = "flags"
    /\ args = {"--update"}
    /\ fatal = "none"
    /\ exit_arg = 0
    /\ port = NoPort
    /\ exited = FALSE
    /\ exit_kind = "none"
    /\ exit_code = 0
    /\ update_ran = FALSE
    /\ worker = "none"
    /\ worker_code = NoCode
    /\ slot = "None"
    /\ lock = "free"
    /\ observed = "none"
    /\ handler_set = FALSE
    /\ h_pc = "idle"
    /\ h_waited = FALSE
    /\ kill_count = 0
    /\ kill_target = "none"
    /\ kill_result = "none"
    /\ port_tried = FALSE

InitVer ==
    /\ InitSupAtUpdate
    /\ InitLoginIdle
    /\ InitResIdle
    /\ InitCoIdle
    /\ InitDlIdle
    /\ InitRelayIdle
    /\ cv_cur \in Versions
    /\ cv_lat \in Versions
    /\ cv_pc = "call"
    /\ cv_newer = FALSE

\* updater.rs 196: compare_versions(current_version, &info.version)
CompareVersions ==
    /\ cv_pc = "call"
    /\ cv_newer' = compare_versions(cv_cur, cv_lat)
    /\ cv_pc' = "ret"
    /\ UNCHANGED <<cv_cur, cv_lat>>
    /\ UNCHANGED <<supVars, loginVars, resVars, coVars, dlVars, relayVars>>

NextVer == CompareVersions

SpecVer == InitVer /\ [][NextVer]_vars

(***************************************************************************)
(* Update resolver: the three check_update calls of run_update             *)
(* (updater.rs 397-407), with fetch_package_info (73-121) and              *)
(* get_best_download_registry (134-161) as races over the mirrors.         *)
(***************************************************************************)
NPM_OFFICIAL_REGISTRY == "https://registry.npmjs.org"

NPM_REGISTRY_MIRRORS ==
    << "https://registry.npmmirror.com",
       "https://mirrors.huaweicloud.com/repository/npm",
       "https://mirrors.cloud.tencent.com/npm" >>

Mirrors == DOMAIN NPM_REGISTRY_MIRRORS

\* the names run_update passes to check_update, in call order
Components == <<"LLBot CLI", "PMHQ", "LLBot">>

\* versions a registry may answer with
RegistryVersions == { <<"1", ".", "2", ".", "0">>, <<"1", ".", "1", "0", ".", "0">> }

\* CARGO_PKG_VERSION of the build
CliVersions == { <<"1", ".", "2", ".", "0">> }

\* results of get_local_version for "pmhq" and "llbot"
LocalVersions == { <<"1", ".", "2", ".", "0">>, NOT_INSTALLED }

NoneMsg == [some |-> FALSE]

SomeMsg(v) == [some |-> TRUE, val |-> v]

NoUrl == [tag |-> "None"]

\* get_tarball_url: the URL is determined by the registry and the version
SomeUrl(registry, version) == [tag |-> "Some", registry |-> registry, version |-> version]

UpdateInfo(name, current, latest, has_update, url) ==
    [ name |-> name, current_version |-> current, latest_version |-> latest,
      has_update |-> has_update, tarball_url |-> url ]

\* number of mirror threads that have not sent yet
Running(t) == Cardinality({m \in DOMAIN t : t[m] = "run"})

\* thread::spawn for every mirror, then drop(tx)
SpawnRace(kind) ==
    /\ thr' = [m \in Mirrors |-> "run"]
    /\ chan' = <<>>
    /\ chan_kind' = kind
    /\ rx_n' = 0

\* the consumer leaves its `for result in rx` loop: the receiver is dropped and
\* the threads still running are left to themselves
LeaveRace ==
    /\ abandoned' = abandoned + Running(thr)
    /\ thr' = [m \in Mirrors |-> "done"]
    /\ UNCHANGED <<chan, chan_kind, rx_n>>

\* check_update returns `info`: run_update goes on to its next call
ReturnInfo(info) ==
    /\ infos' = Append(infos, info)
    /\ fetch_res' = [tag |-> "none"]
    /\ primary_asked' = FALSE
    /\ IF res_i < Len(Components)
       THEN res_i' = res_i + 1 /\ res_pc' = "check"
       ELSE res_i' = res_i /\ res_pc' = "table"

\* run_update is entered (updater.rs 392-403)
InitRes ==
    /\ InitSupAtUpdate
    /\ InitLoginIdle
    /\ InitVerIdle
    /\ InitCoIdle
    /\ InitDlIdle
    /\ InitRelayIdle
    /\ res_pc = "check"
    /\ res_i = 1
    /\ local_ver \in [1..Len(Components) -> CliVersions \cup LocalVersions]
    /\ local_ver[1] \in CliVersions
    /\ infos = <<>>
    /\ fetch_res = [tag |-> "none"]
    /\ primary_asked = FALSE
    /\ thr = [m \in Mirrors |-> "done"]
    /\ chan = <<>>
    /\ chan_kind = "none"
    /\ rx_n = 0
    /\ abandoned = 0

FetchPrimary_eager ==
    /\ res_pc = "check"
    /\ primary_asked' = TRUE
    /\ SpawnRace("info")
    /\ \/ \E v \in RegistryVersions :
            /\ fetch_res' = [tag |-> "Ok", version |-> v]
            /\ res_pc' = "fetched"
       \/ /\ res_pc' = "fetch_rx"
          /\ UNCHANGED fetch_res
    /\ UNCHANGED <<res_i, local_ver, infos, abandoned>>
    /\ UNCHANGED <<supVars, loginVars, verVars, coVars, dlVars, relayVars>>

\* updater.rs 76-88: the primary registry answers first; on any failure the
\* mirror threads are spawned (91-112).  No channel exists in a call the
\* primary answers; chan keeps a finished race only until the next call.
FetchPrimary ==
    /\ res_pc = "check"
    /\ primary_asked' = TRUE
    /\ \/ \E v \in RegistryVersions :
            /\ fetch_res' = [tag |-> "Ok", version |-> v]
            /\ res_pc' = "fetched"
            /\ chan' = <<>>
            /\ chan_kind' = "none"
            /\ rx_n' = 0
            /\ UNCHANGED thr
       \/ /\ SpawnRace("info")
          /\ res_pc' = "fetch_rx"
          /\ UNCHANGED fetch_res
    /\ UNCHANGED <<res_i, local_ver, infos, abandoned>>
    /\ UNCHANGED <<supVars, loginVars, verVars, coVars, dlVars, relayVars>>

MirrorInfoSend_silent ==
    /\ res_pc = "fetch_rx"
    /\ \E m \in Mirrors :
         /\ thr[m] = "run"
         /\ thr' = [thr EXCEPT ![m] = "done"]
         /\ \/ \E v \in RegistryVersions : chan' = Append(chan, SomeMsg(v))
            \/ chan' = chan
    /\ UNCHANGED <<res_pc, res_i, local_ver, infos, fetch_res, primary_asked,
                   chan_kind, rx_n, abandoned>>
    /\ UNCHANGED <<supVars, loginVars, verVars, coVars, dlVars, relayVars>>

\* updater.rs 96-109: one mirror thread of fetch_package_info sends its result
MirrorInfoSend ==
    /\ res_pc = "fetch_rx"
    /\ \E m \in Mirrors :
         /\ thr[m] = "run"
         /\ thr' = [thr EXCEPT ![m] = "done"]
         /\ \/ \E v \in RegistryVersions : chan' = Append(chan, SomeMsg(v))
            \/ chan' = Append(chan, NoneMsg)
    /\ UNCHANGED <<res_pc, res_i, local_ver, infos, fetch_res, primary_asked,
                   chan_kind, rx_n, abandoned>>
    /\ UNCHANGED <<supVars, loginVars, verVars, coVars, dlVars, relayVars>>

FetchRecv_last ==
    /\ res_pc = "fetch_rx"
    /\ rx_n < Len(chan)
    /\ IF chan[rx_n + 1].some /\ ~(\E k \in (rx_n + 2)..Len(chan) : chan[k].some)
       THEN /\ fetch_res' = [tag |-> "Ok", version |-> chan[rx_n + 1].val]
            /\ res_pc' = "fetched"
            /\ LeaveRace
       ELSE /\ rx_n' = rx_n + 1
            /\ UNCHANGED <<fetch_res, res_pc, thr, chan, chan_kind, abandoned>>
    /\ UNCHANGED <<res_i, local_ver, infos, primary_asked>>
    /\ UNCHANGED <<supVars, loginVars, verVars, coVars, dlVars, relayVars>>

\* updater.rs 114-118: the consumer takes the next message; a Some ends the
\* function, a None is skipped
FetchRecv ==
    /\ res_pc = "fetch_rx"
    /\ rx_n < Len(chan)
    /\ IF chan[rx_n + 1].some
       THEN /\ fetch_res' = [tag |-> "Ok", version |-> chan[rx_n + 1].val]
            /\ res_pc' = "fetched"
            /\ LeaveRace
       ELSE /\ rx_n' = rx_n + 1
            /\ UNCHANGED <<fetch_res, res_pc, thr, chan, chan_kind, abandoned>>
    /\ UNCHANGED <<res_i, local_ver, infos, primary_asked>>
    /\ UNCHANGED <<supVars, loginVars, verVars, coVars, dlVars, relayVars>>

\* updater.rs 114-120: every sender is gone and the channel is drained
FetchAllFailed ==
    /\ res_pc = "fetch_rx"
    /\ rx_n = Len(chan)
    /\ Running(thr) = 0
    /\ fetch_res' = [tag |-> "Err"]
    /\ res_pc' = "fetched"
    /\ LeaveRace
    /\ UNCHANGED <<res_i, local_ver, infos, primary_asked>>
    /\ UNCHANGED <<supVars, loginVars, verVars, coVars, dlVars, relayVars>>

CheckUpdateErr_abort ==
    /\ res_pc = "fetched"
    /\ fetch_res.tag = "Err"
    /\ infos' = Append(infos, UpdateInfo(Components[res_i], local_ver[res_i],
                                         UNKNOWN_VERSION, FALSE, NoUrl))
    /\ fetch_res' = [tag |-> "none"]
    /\ primary_asked' = FALSE
    /\ res_pc' = "table"
    /\ UNCHANGED <<res_i, local_ver, thr, chan, chan_kind, rx_n, abandoned>>
    /\ UNCHANGED <<supVars, loginVars, verVars, coVars, dlVars, relayVars>>

\* updater.rs 210-219: fetch_package_info failed
CheckUpdateErr ==
    /\ res_pc = "fetched"
    /\ fetch_res.tag = "Err"
    /\ ReturnInfo(UpdateInfo(Components[res_i], local_ver[res_i],
                             UNKNOWN_VERSION, FALSE, NoUrl))
    /\ UNCHANGED <<local_ver, thr, chan, chan_kind, rx_n, abandoned>>
    /\ UNCHANGED <<supVars, loginVars, verVars, coVars, dlVars, relayVars>>

\* updater.rs 195-209: fetch_package_info succeeded; with an update available
\* get_tarball_url starts the race of get_best_download_registry (135-152)
CheckUpdateOk ==
    /\ res_pc = "fetched"
    /\ fetch_res.tag = "Ok"
    /\ IF compare_versions(local_ver[res_i], fetch_res.version)
       THEN /\ SpawnRace("exists")
            /\ res_pc' = "exists_rx"
            /\ UNCHANGED <<res_i, infos, fetch_res, primary_asked>>
       ELSE /\ ReturnInfo(UpdateInfo(Components[res_i], local_ver[res_i],
                                     fetch_res.version, FALSE, NoUrl))
            /\ UNCHANGED <<thr, chan, chan_kind, rx_n>>
    /\ UNCHANGED <<local_ver, abandoned>>
    /\ UNCHANGED <<supVars, loginVars, verVars, coVars, dlVars, relayVars>>

\* updater.rs 143-149 with check_version_exists (123-132): one mirror thread
\* sends its own name when the version exists there, None otherwise
MirrorExistsSend ==
    /\ res_pc = "exists_rx"
    /\ \E m \in Mirrors :
         /\ thr[m] = "run"
         /\ thr' = [thr EXCEPT ![m] = "done"]
         /\ \/ chan' = Append(chan, SomeMsg(NPM_REGISTRY_MIRRORS[m]))
            \/ chan' = Append(chan, NoneMsg)
    /\ UNCHANGED <<res_pc, res_i, local_ver, infos, fetch_res, primary_asked,
                   chan_kind, rx_n, abandoned>>
    /\ UNCHANGED <<supVars, loginVars, verVars, coVars, dlVars, relayVars>>

ExistsRecv_any ==
    /\ res_pc = "exists_rx"
    /\ rx_n < Len(chan)
    /\ ReturnInfo(UpdateInfo(Components[res_i], local_ver[res_i],
                             fetch_res.version, TRUE,
                             SomeUrl(NPM_REGISTRY_MIRRORS[1], fetch_res.version)))
    /\ LeaveRace
    /\ UNCHANGED local_ver
    /\ UNCHANGED <<supVars, loginVars, verVars, coVars, dlVars, relayVars>>

\* updater.rs 154-158, 163-167, 197-208: the first Some is the registry of
\* the URL
ExistsRecv ==
    /\ res_pc = "exists_rx"
    /\ rx_n < Len(chan)
    /\ IF chan[rx_n + 1].some
       THEN /\ ReturnInfo(UpdateInfo(Components[res_i], local_ver[res_i],
                                     fetch_res.version, TRUE,
                                     SomeUrl(chan[rx_n + 1].val, fetch_res.version)))
            /\ LeaveRace
       ELSE /\ rx_n' = rx_n + 1
            /\ UNCHANGED <<res_pc, res_i, infos, fetch_res, primary_asked,
                           thr, chan, chan_kind, abandoned>>
    /\ UNCHANGED local_ver
    /\ UNCHANGED <<supVars, loginVars, verVars, coVars, dlVars, relayVars>>

ExistsAllFailed_nourl ==
    /\ res_pc = "exists_rx"
    /\ rx_n = Len(chan)
    /\ Running(thr) = 0
    /\ ReturnInfo(UpdateInfo(Components[res_i], local_ver[res_i],
                             fetch_res.version, TRUE, NoUrl))
    /\ LeaveRace
    /\ UNCHANGED local_ver
    /\ UNCHANGED <<supVars, loginVars, verVars, coVars, dlVars, relayVars>>

\* updater.rs 154-160, 163-167, 197-208: no mirror confirmed, the URL is
\* built on the official registry
ExistsAllFailed ==
    /\ res_pc = "exists_rx"
    /\ rx_n = Len(chan)
    /\ Running(thr) = 0
    /\ ReturnInfo(UpdateInfo(Components[res_i], local_ver[res_i],
                             fetch_res.version, TRUE,
                             SomeUrl(NPM_OFFICIAL_REGISTRY, fetch_res.version)))
    /\ LeaveRace
    /\ UNCHANGED local_ver
    /\ UNCHANGED <<supVars, loginVars, verVars, coVars, dlVars, relayVars>>

\* updater.rs 103, 108, 145, 147: a thread of a race that is over sends into a
\* channel without receiver; `let _ =` discards the error
AbandonedSend ==
    /\ abandoned > 0
    /\ abandoned' = abandoned - 1
    /\ UNCHANGED <<res_pc, res_i, local_ver, infos, fetch_res, primary_asked,
                   thr, chan, chan_kind, rx_n>>
    /\ UNCHANGED <<supVars, loginVars, verVars, coVars, dlVars, relayVars>>

NextRes ==
    \/ FetchPrimary
    \/ MirrorInfoSend
    \/ FetchRecv
    \/ FetchAllFailed
    \/ CheckUpdateErr
    \/ CheckUpdateOk
    \/ MirrorExistsSend
    \/ ExistsRecv
    \/ ExistsAllFailed
    \/ AbandonedSend

SpecRes == InitRes /\ [][NextRes]_vars

\* for the progress properties every component is installed at the version
\* of the build; the registries still answer with either version
InitResFair ==
    /\ InitRes
    /\ \A i \in DOMAIN local_ver : local_ver[i] \in CliVersions

\* The mirror threads are scheduled again and again: every request has the
\* timeout UPDATE_TIMEOUT_SECS (updater.rs 97-99, 128), so a running thread
\* comes to its send.  So are the receive loops of the two races (114-118,
\* 154-158): the consumer blocks only while no message is there and a sender
\* is left.
SpecResFair ==
    /\ InitResFair
    /\ [][NextRes]_vars
    /\ WF_vars(MirrorInfoSend \/ MirrorExistsSend)
    /\ WF_vars(FetchRecv \/ FetchAllFailed \/ ExistsRecv \/ ExistsAllFailed)

(***************************************************************************)
(* Update coordinator: run_update from its table on (updater.rs 409-498),  *)
(* download_and_extract (295-365) and self_update (509-624).               *)
(***************************************************************************)
\* registries of the URLs the coordinator is started with: the primary and
\* one mirror
SampleRegistries == {NPM_OFFICIAL_REGISTRY, NPM_REGISTRY_MIRRORS[1]}

\* the UpdateInfo values check_update can return for a component
InfosFor(name, current) ==
    {UpdateInfo(name, current, UNKNOWN_VERSION, FALSE, NoUrl)}
    \cup {UpdateInfo(name, current, v, FALSE, NoUrl) :
            v \in {w \in RegistryVersions : ~compare_versions(current, w)}}
    \cup {UpdateInfo(name, current, v, TRUE, SomeUrl(r, v)) :
            v \in {w \in RegistryVersions : compare_versions(current, w)},
            r \in SampleRegistries}

\* updater.rs 416-419: indices of the entries kept by the filter, in order
RECURSIVE FilterUpdates(_, _)
FilterUpdates(list, k) ==
    IF k > Len(list) THEN <<>>
    ELSE IF list[k].has_update /\ list[k].tarball_url.tag = "Some"
         THEN <<k>> \o FilterUpdates(list, k + 1)
         ELSE FilterUpdates(list, k + 1)

\* outcomes of download_and_extract: Ok; an error before anything is written
\* (298-314); an error with the scratch file or directory left in the target
\* (318-337); an error in the middle of the entry-by-entry move (341-357)
DlOutcomes == {"ok", "err_download", "err_scratch", "err_move"}

DirAfter(before, outcome) ==
    CASE outcome = "ok"           -> "new"
      [] outcome = "err_download" -> before
      [] outcome = "err_scratch"  -> IF before = "old" THEN "old_scratch" ELSE before
      [] outcome = "err_move"     -> "partial"

\* run_update has printed nothing yet after its three check_update calls
InitUpd ==
    /\ InitSupAtUpdate
    /\ InitLoginIdle
    /\ InitVerIdle
    /\ InitDlIdle
    /\ InitRelayIdle
    /\ res_pc = "table"
    /\ res_i = Len(Components)
    /\ local_ver \in [1..Len(Components) -> CliVersions \cup LocalVersions]
    /\ local_ver[1] \in CliVersions
    /\ infos \in [1..Len(Components) ->
                    UNION {InfosFor(Components[k], local_ver[k]) : k \in 1..Len(Components)}]
    /\ \A k \in 1..Len(Components) : infos[k] \in InfosFor(Components[k], local_ver[k])
    /\ fetch_res = [tag |-> "none"]
    /\ primary_asked = FALSE
    /\ thr = [m \in Mirrors |-> "done"]
    /\ chan = <<>>
    /\ chan_kind = "none"
    /\ rx_n = 0
    /\ abandoned = 0
    /\ platform \in {"windows", "unix"}
    /\ co_pc = "table"
    /\ updates = <<>>
    /\ upd_k = 0
    /\ need_self_update = FALSE
    /\ dir_state = [c \in Installed |-> "old"]
    /\ dl_res = [c \in Installed |-> "none"]
    /\ self_res = "none"
    /\ own_exe = "old"
    /\ backup_exe \in {"none", "stale"}
    /\ helper = "none"

FilterStep_noprompt ==
    /\ ~exited /\ co_pc = "table"
    /\ updates' = FilterUpdates(infos, 1)
    /\ co_pc' = IF updates' = <<>> THEN "returned" ELSE "loop"
    /\ upd_k' = IF updates' = <<>> THEN upd_k ELSE 1
    /\ UNCHANGED <<platform, need_self_update, dir_state, dl_res, self_res,
                   own_exe, backup_exe, helper>>
    /\ UNCHANGED <<supVars, loginVars, verVars, resVars, dlVars, relayVars>>

\* updater.rs 409-426: table, filter, early return when nothing is left
FilterStep ==
    /\ ~exited /\ co_pc = "table"
    /\ updates' = FilterUpdates(infos, 1)
    /\ co_pc' = IF updates' = <<>> THEN "returned"
                ELSE IF platform = "windows" THEN "proc_check" ELSE "prompt"
    /\ UNCHANGED <<platform, upd_k, need_self_update, dir_state, dl_res, self_res,
                   own_exe, backup_exe, helper>>
    /\ UNCHANGED <<supVars, loginVars, verVars, resVars, dlVars, relayVars>>

\* updater.rs 428-451, Windows build: processes named llbot.exe, pmhq.exe or
\* QQ.exe are listed and, if the user agrees, killed with taskkill /F; the
\* list can hold the launcher itself
ProcessCheck ==
    /\ ~exited /\ co_pc = "proc_check"
    /\ \/ /\ co_pc' = "prompt"
          /\ UNCHANGED <<exited, exit_kind, exit_code>>
       \/ /\ co_pc' = "killed"
          /\ exited' = TRUE
          /\ exit_kind' = "signal"
          /\ UNCHANGED exit_code
    /\ UNCHANGED <<main_pc, args, fatal, exit_arg, port, update_ran, worker,
                   worker_code, slot, lock, observed, handler_set, h_pc, h_waited,
                   kill_count, kill_target, kill_result, port_tried>>
    /\ UNCHANGED <<platform, updates, upd_k, need_self_update, dir_state, dl_res,
                   self_res, own_exe, backup_exe, helper>>
    /\ UNCHANGED <<loginVars, verVars, resVars, dlVars, relayVars>>

\* updater.rs 453-460 with prompt_yes_no (380-390)
Prompt ==
    /\ ~exited /\ co_pc = "prompt"
    /\ \E yes \in BOOLEAN :
         IF yes
         THEN co_pc' = "loop" /\ upd_k' = 1
         ELSE co_pc' = "returned" /\ upd_k' = upd_k
    /\ UNCHANGED <<platform, updates, need_self_update, dir_state, dl_res, self_res,
                   own_exe, backup_exe, helper>>
    /\ UNCHANGED <<supVars, loginVars, verVars, resVars, dlVars, relayVars>>

LoopSelf_now ==
    /\ ~exited /\ co_pc = "loop"
    /\ upd_k <= Len(updates)
    /\ infos[updates[upd_k]].name = "LLBot CLI"
    /\ need_self_update' = TRUE
    /\ co_pc' = "self_prepare"
    /\ UNCHANGED <<platform, updates, upd_k, dir_state, dl_res, self_res, own_exe,
                   backup_exe, helper>>
    /\ UNCHANGED <<supVars, loginVars, verVars, resVars, dlVars, relayVars>>

\* updater.rs 462-466: the launcher's own entry is only noted
LoopSelf ==
    /\ ~exited /\ co_pc = "loop"
    /\ upd_k <= Len(updates)
    /\ infos[updates[upd_k]].name = "LLBot CLI"
    /\ need_self_update' = TRUE
    /\ upd_k' = upd_k + 1
    /\ UNCHANGED <<platform, co_pc, updates, dir_state, dl_res, self_res, own_exe,
                   backup_exe, helper>>
    /\ UNCHANGED <<supVars, loginVars, verVars, resVars, dlVars, relayVars>>

LoopInstall_stop ==
    /\ ~exited /\ co_pc = "loop"
    /\ upd_k <= Len(updates)
    /\ infos[updates[upd_k]].name \in Installed
    /\ \E outcome \in DlOutcomes :
         LET c == infos[updates[upd_k]].name
         IN  /\ dir_state' = [dir_state EXCEPT ![c] = DirAfter(dir_state[c], outcome)]
             /\ dl_res' = [dl_res EXCEPT ![c] = IF outcome = "ok" THEN "Ok" ELSE "Err"]
             /\ co_pc' = IF outcome = "ok" THEN co_pc ELSE "returned"
    /\ upd_k' = upd_k + 1
    /\ UNCHANGED <<platform, updates, need_self_update, self_res, own_exe,
                   backup_exe, helper>>
    /\ UNCHANGED <<supVars, loginVars, verVars, resVars, dlVars, relayVars>>

\* updater.rs 468-482 with download_and_extract (295-365): the error is
\* printed and the loop goes on
LoopInstall ==
    /\ ~exited /\ co_pc = "loop"
    /\ upd_k <= Len(updates)
    /\ infos[updates[upd_k]].name \in Installed
    /\ \E outcome \in DlOutcomes :
         LET c == infos[updates[upd_k]].name
         IN  /\ dir_state' = [dir_state EXCEPT ![c] = DirAfter(dir_state[c], outcome)]
             /\ dl_res' = [dl_res EXCEPT ![c] = IF outcome = "ok" THEN "Ok" ELSE "Err"]
    /\ upd_k' = upd_k + 1
    /\ UNCHANGED <<platform, co_pc, updates, need_self_update, self_res, own_exe,
                   backup_exe, helper>>
    /\ UNCHANGED <<supVars, loginVars, verVars, resVars, dlVars, relayVars>>

\* updater.rs 483-488, 497: after the loop
LoopEnd ==
    /\ ~exited /\ co_pc = "loop"
    /\ upd_k > Len(updates)
    /\ co_pc' = IF need_self_update THEN "self_prepare" ELSE "returned"
    /\ UNCHANGED <<platform, updates, upd_k, need_self_update, dir_state, dl_res,
                   self_res, own_exe, backup_exe, helper>>
    /\ UNCHANGED <<supVars, loginVars, verVars, resVars, dlVars, relayVars>>

\* self_update, both builds (513-526, 588-601): current_exe, the temporary
\* directory, download_and_extract into it, find_exe_in_dir; any failure is
\* returned, printed by run_update (491) and run_update ends (497)
SelfPrepare ==
    /\ ~exited /\ co_pc = "self_prepare"
    /\ \E ok \in BOOLEAN :
         IF ok
         THEN /\ co_pc' = IF platform = "windows" THEN "self_handoff" ELSE "self_backup"
              /\ UNCHANGED self_res
         ELSE /\ co_pc' = "returned"
              /\ self_res' = "Err"
    /\ UNCHANGED <<platform, updates, upd_k, need_self_update, dir_state, dl_res,
                   own_exe, backup_exe, helper>>
    /\ UNCHANGED <<supVars, loginVars, verVars, resVars, dlVars, relayVars>>

SelfHandOff_inplace ==
    /\ ~exited /\ co_pc = "self_handoff"
    /\ co_pc' = "returned"
    /\ self_res' = "Ok"
    /\ own_exe' = "new"
    /\ backup_exe' = "old"
    /\ UNCHANGED <<platform, updates, upd_k, need_self_update, dir_state, dl_res,
                   helper>>
    /\ UNCHANGED <<supVars, loginVars, verVars, resVars, dlVars, relayVars>>

\* self_update, Windows build (528-580): write _update.bat, start it with cmd,
\* exit(0); a failure to write or to start the script is returned
SelfHandOff ==
    /\ ~exited /\ co_pc = "self_handoff"
    /\ \E ok \in BOOLEAN :
         IF ok
         THEN /\ helper' = "waiting"
              /\ co_pc' = "handed_off"
              /\ Exit(0)
              /\ UNCHANGED self_res
         ELSE /\ co_pc' = "returned"
              /\ self_res' = "Err"
              /\ UNCHANGED <<helper, exited, exit_kind, exit_code>>
    /\ UNCHANGED <<main_pc, args, fatal, exit_arg, port, update_ran, worker,
                   worker_code, slot, lock, observed, handler_set, h_pc, h_waited,
                   kill_count, kill_target, kill_result, port_tried>>
    /\ UNCHANGED <<platform, updates, upd_k, need_self_update, dir_state, dl_res,
                   own_exe, backup_exe>>
    /\ UNCHANGED <<loginVars, verVars, resVars, dlVars, relayVars>>

\* _update.bat (537-544): once the launcher's pid is gone, delete the old
\* backup and move the executable to the backup path
HelperBackup ==
    /\ helper = "waiting"
    /\ exited
    /\ \/ own_exe' = "missing" /\ backup_exe' = "old"
       \/ own_exe' = own_exe /\ backup_exe' \in {"none", backup_exe}
    /\ helper' = "moved"
    /\ UNCHANGED <<platform, co_pc, updates, upd_k, need_self_update, dir_state,
                   dl_res, self_res>>
    /\ UNCHANGED <<supVars, loginVars, verVars, resVars, dlVars, relayVars>>

\* _update.bat (546-561): copy the new executable in; on failure move the
\* backup back
HelperCopy ==
    /\ helper = "moved"
    /\ \/ own_exe' = "new" /\ helper' = "done" /\ UNCHANGED backup_exe
       \/ /\ helper' = "failed"
          /\ IF backup_exe # "none"
             THEN own_exe' = backup_exe /\ backup_exe' = "none"
             ELSE UNCHANGED <<own_exe, backup_exe>>
    /\ UNCHANGED <<platform, co_pc, updates, upd_k, need_self_update, dir_state,
                   dl_res, self_res>>
    /\ UNCHANGED <<supVars, loginVars, verVars, resVars, dlVars, relayVars>>

\* self_update, other builds (603-609): remove an old backup, rename the
\* running executable to the backup path
SelfBackup ==
    /\ ~exited /\ co_pc = "self_backup"
    /\ \E ok \in BOOLEAN :
         IF ok
         THEN /\ own_exe' = "missing"
              /\ backup_exe' = "old"
              /\ co_pc' = "self_copy"
              /\ UNCHANGED self_res
         ELSE /\ backup_exe' \in {backup_exe, "none"}
              /\ co_pc' = "returned"
              /\ self_res' = "Err"
              /\ UNCHANGED own_exe
    /\ UNCHANGED <<platform, updates, upd_k, need_self_update, dir_state, dl_res,
                   helper>>
    /\ UNCHANGED <<supVars, loginVars, verVars, resVars, dlVars, relayVars>>

\* self_update, other builds (611-615): copy the new executable to the
\* launcher's path; on failure rename the backup back, ignoring the outcome
SelfCopy ==
    /\ ~exited /\ co_pc = "self_copy"
    /\ \/ /\ own_exe' = "new_noperm"
          /\ co_pc' = "self_perm"
          /\ UNCHANGED <<backup_exe, self_res>>
       \/ /\ \/ own_exe' = "old" /\ backup_exe' = "none"
             \/ own_exe' \in {"missing", "partial"} /\ UNCHANGED backup_exe
          /\ co_pc' = "returned"
          /\ self_res' = "Err"
    /\ UNCHANGED <<platform, updates, upd_k, need_self_update, dir_state, dl_res,
                   helper>>
    /\ UNCHANGED <<supVars, loginVars, verVars, resVars, dlVars, relayVars>>

\* self_update, other builds (617-623): mode 0o755, remove the temporary
\* directory, Ok; run_update returns at once (490)
SelfPerm ==
    /\ ~exited /\ co_pc = "self_perm"
    /\ \/ own_exe' = "new" /\ self_res' = "Ok"
       \/ UNCHANGED own_exe /\ self_res' = "Err"
    /\ co_pc' = "returned"
    /\ UNCHANGED <<platform, updates, upd_k, need_self_update, dir_state, dl_res,
                   backup_exe, helper>>
    /\ UNCHANGED <<supVars, loginVars, verVars, resVars, dlVars, relayVars>>

\* main.rs 119-122: run_update has returned, main calls wait_exit(0)
UpdateReturns ==
    /\ ~exited /\ co_pc = "returned"
    /\ main_pc = "flags"
    /\ co_pc' = "done"
    /\ update_ran' = TRUE
    /\ CallWaitExit(0)
    /\ UNCHANGED <<args, fatal, port, exited, exit_kind, exit_code, worker,
                   worker_code, slot, lock, observed, handler_set, h_pc, h_waited,
                   kill_count, kill_target, kill_result, port_tried>>
    /\ UNCHANGED <<platform, updates, upd_k, need_self_update, dir_state, dl_res,
                   self_res, own_exe, backup_exe, helper>>
    /\ UNCHANGED <<loginVars, verVars, resVars, dlVars, relayVars>>

NextUpd ==
    \/ FilterStep
    \/ ProcessCheck
    \/ Prompt
    \/ LoopSelf
    \/ LoopInstall
    \/ LoopEnd
    \/ SelfPrepare
    \/ SelfHandOff
    \/ HelperBackup
    \/ HelperCopy
    \/ SelfBackup
    \/ SelfCopy
    \/ SelfPerm
    \/ UpdateReturns
    \/ WaitExit

SpecUpd == InitUpd /\ [][NextUpd]_vars

(***************************************************************************)
(* download_and_extract (updater.rs 295-365), one call, step by step.      *)
(* Every `?` is a return point; whatever was written before it stays.      *)
(***************************************************************************)
\* the call starts: extract_dir holds old entries or nothing under each name,
\* the archive holds some of the names under package/
InitDl ==
    /\ InitSupAtUpdate
    /\ InitLoginIdle
    /\ InitVerIdle
    /\ InitResIdle
    /\ InitCoIdle
    /\ InitRelayIdle
    /\ dl_pc = "call"
    /\ dl_before \in {Dir(ents, FALSE, FALSE) : ents \in [EntryNames -> {"absent", "old"}]}
    /\ dl_dir = dl_before
    /\ dl_pkg \in SUBSET EntryNames
    /\ dl_todo = {}
    /\ dl_ret = "none"

\* 298-316: the request, the status test, read_to_end
DlDownload ==
    /\ dl_pc = "call"
    /\ \/ dl_pc' = "downloaded" /\ UNCHANGED dl_ret
       \/ dl_pc' = "ret" /\ dl_ret' = "Err"
    /\ UNCHANGED <<dl_before, dl_dir, dl_pkg, dl_todo>>
    /\ UNCHANGED <<supVars, loginVars, verVars, resVars, coVars, relayVars>>

\* 318-323: create_dir_all(extract_dir), then the archive is written to
\* _temp_download.tgz inside it; a failed write may leave the file behind
DlWriteTemp ==
    /\ dl_pc = "downloaded"
    /\ \/ /\ dl_dir' = [dl_dir EXCEPT !.tgz = TRUE]
          /\ dl_pc' = "written"
          /\ UNCHANGED dl_ret
       \/ /\ dl_dir' \in {dl_dir, [dl_dir EXCEPT !.tgz = TRUE]}
          /\ dl_pc' = "ret"
          /\ dl_ret' = "Err"
    /\ UNCHANGED <<dl_before, dl_pkg, dl_todo>>
    /\ UNCHANGED <<supVars, loginVars, verVars, resVars, coVars, relayVars>>

\* 327-337: open the scratch file, create _temp_extract, unpack into it
DlUnpack ==
    /\ dl_pc = "written"
    /\ \/ /\ dl_dir' = [dl_dir EXCEPT !.tmp = TRUE]
          /\ dl_pc' = "unpacked"
          /\ dl_todo' = dl_pkg
          /\ UNCHANGED dl_ret
       \/ /\ dl_dir' \in {dl_dir, [dl_dir EXCEPT !.tmp = TRUE]}
          /\ dl_pc' = "ret"
          /\ dl_ret' = "Err"
          /\ UNCHANGED dl_todo
    /\ UNCHANGED <<dl_before, dl_pkg>>
    /\ UNCHANGED <<supVars, loginVars, verVars, resVars, coVars, relayVars>>

\* 341-357: the next entry of package/: an existing destination is removed
\* (outcome ignored), then the entry is renamed or copied into place; when
\* that fails the function returns with the destination gone, or still the
\* old one if the removal had failed too
DlMoveEntry ==
    /\ dl_pc = "unpacked"
    /\ dl_todo # {}
    /\ \E e \in dl_todo :
         /\ dl_todo' = dl_todo \ {e}
         /\ \/ /\ dl_dir' = [dl_dir EXCEPT !.ents[e] = "new"]
               /\ UNCHANGED <<dl_pc, dl_ret>>
            \/ /\ dl_dir' \in {dl_dir, [dl_dir EXCEPT !.ents[e] = "absent"]}
               /\ dl_pc' = "ret"
               /\ dl_ret' = "Err"
    /\ UNCHANGED <<dl_before, dl_pkg>>
    /\ UNCHANGED <<supVars, loginVars, verVars, resVars, coVars, relayVars>>

\* 360-364: both scratch names are removed, outcomes ignored; Ok
DlCleanup ==
    /\ dl_pc = "unpacked"
    /\ dl_todo = {}
    /\ \E tgz \in {FALSE, dl_dir.tgz}, tmp \in {FALSE, dl_dir.tmp} :
         dl_dir' = [dl_dir EXCEPT !.tgz = tgz, !.tmp = tmp]
    /\ dl_pc' = "ret"
    /\ dl_ret' = "Ok"
    /\ UNCHANGED <<dl_before, dl_pkg, dl_todo>>
    /\ UNCHANGED <<supVars, loginVars, verVars, resVars, coVars, relayVars>>

NextDl ==
    \/ DlDownload
    \/ DlWriteTemp
    \/ DlUnpack
    \/ DlMoveEntry
    \/ DlCleanup

SpecDl == InitDl /\ [][NextDl]_vars

(***************************************************************************)
(* Properties of the login session monitor                                 *)
(***************************************************************************)
\* C1: the logged-in flag never goes from true back to false, whichever of
\* the refresh loop, the stream listener and the reporter takes the step.
C1_FlagMonotonic == [][logged_in => logged_in']_vars

\* all three actors have run to their end with the flag set
C1_Witness ==
    /\ logged_in
    /\ sse_pc = "done"
    /\ ref_pc = "done"
    /\ mon_pc = "done"
    /\ info_result = "err"

\* C6: on_qrcode is never invoked once the flag is true; before that it is
\* invoked once for every QR-ready frame that carries a non-empty URL.
C6_NoQrAfterLogin ==
    [][ /\ logged_in => qr_calls' = qr_calls
        /\ ( /\ sse_pc = "read"
             /\ <<sse_line, sse_pc, qr_calls, logged_in>>' #
                  <<sse_line, sse_pc, qr_calls, logged_in>> )
           => qr_calls' =
                IF /\ ~logged_in
                   /\ sse_line'.kind = "frame"
                   /\ sse_line'.type = "nodeIKernelLoginListener"
                   /\ sse_line'.data
                   /\ sse_line'.sub_type = "onQRCodeGetPicture"
                   /\ sse_line'.payload
                   /\ sse_line'.url # ""
                THEN qr_calls + 1
                ELSE qr_calls
      ]_vars

\* the callback fired more than once, then login completed
C6_Witness ==
    /\ qr_calls >= 2
    /\ logged_in
    /\ sse_pc = "done"

\* C7: the flag is set exactly by the listener handling a well-formed frame
\* that is a session-listener event with sub_type onSessionInitComplete or
\* an account_ready event; the listener then returns and handles no more.
C7_LoginExactlyOnLoginFrame ==
    [][ LET LoginFrame(l) ==
                /\ l.kind = "frame"
                /\ \/ /\ l.type = "nodeIQQNTWrapperSessionListener"
                      /\ l.data
                      /\ l.sub_type = "onSessionInitComplete"
                   \/ l.type = "account_ready"
        IN  /\ (logged_in' # logged_in)
               => /\ logged_in'
                  /\ sse_pc = "read"
                  /\ sse_pc' = "done"
                  /\ LoginFrame(sse_line')
            /\ ( /\ sse_pc = "read"
                 /\ ~logged_in
                 /\ <<sse_line, sse_pc, qr_calls, logged_in>>' #
                      <<sse_line, sse_pc, qr_calls, logged_in>>
                 /\ LoginFrame(sse_line') )
               => (logged_in' /\ sse_pc' = "done")
            /\ sse_pc = "done"
               => (sse_pc' = "done" /\ UNCHANGED <<sse_line, qr_calls, logged_in>>)
      ]_vars

\* the listener returned on a session-init frame, and on an account_ready one
C7_Witness ==
    /\ logged_in
    /\ sse_pc = "done"
    /\ sse_line.type = "nodeIQQNTWrapperSessionListener"
    /\ mon_pc = "done"

\* C8 as stated: once the flag is set, the refresh loop starts no QR request
\* and the listener starts no connection attempt.
C8_NoNewAttemptAfterLogin ==
    [][ ( \/ (ref_pc = "request" /\ ref_pc' = "win_check")
          \/ (sse_pc = "connect" /\ sse_pc' # "connect") )
        => ~logged_in ]_vars

\* C8 amended: once the flag is set the listener starts no connection
\* attempt, and the refresh loop starts at most one more QR request (the one
\* whose flag check came before the store).
C8_AtMostOneLateRequest ==
    [][ /\ (sse_pc = "connect" /\ sse_pc' # "connect") => ~logged_in
        /\ (ref_pc = "request" /\ ref_pc' = "win_check" /\ logged_in)
           => ~ref_late
        /\ (sse_pc = "check" /\ sse_pc' # "check" /\ logged_in)
           => sse_pc' = "done"
        /\ (ref_pc = "check" /\ ref_pc' # "check" /\ logged_in)
           => ref_pc' = "done"
      ]_vars

\* the one late request happened and the refresh loop then stopped
C8_Witness ==
    /\ ref_late
    /\ ref_pc = "done"
    /\ logged_in

(***************************************************************************)
(* Properties of the launcher and supervisor                               *)
(***************************************************************************)
\* C2: whenever the launcher has exited through the cancellation handler
\* (an interrupt after the worker was spawned), the handler has invoked kill
\* on the worker's process group.
C2_KillBeforeExit ==
    (exited /\ h_pc = "done" /\ worker # "none") => kill_count >= 1

\* C3: kill is invoked at most once, and never on a handle whose process
\* the wait loop has already reaped.
C3_NoDoubleNoStaleKill ==
    /\ kill_count <= 1
    /\ kill_target # "reaped"

C5_ExitMirrorsWorker ==
    /\ (exited /\ exit_kind = "code" /\ main_pc = "done" /\ observed = "status"
          /\ worker_code # NoCode)
       => exit_code = worker_code
    /\ (exited /\ exit_kind = "code" /\ fatal \in LaunchFatal)
       => exit_code = 1

\* C9: the Result of kill is never surfaced: whatever kill returned, and
\* whether the worker was alive, exited or reaped, the handler goes from the
\* kill straight to the process exit and exits with the same code 0.
C9_KillOutcomeIgnored ==
    /\ [][ (h_pc = "locked" /\ h_pc' # h_pc) => h_pc' = "exit" ]_vars
    /\ [][ (h_pc = "exit" /\ h_pc' # h_pc)
           => (h_pc' = "done" /\ exited' /\ exit_kind' = "code" /\ exit_code' = 0)
         ]_vars
    /\ [](h_pc = "done" => (exit_kind = "code" /\ exit_code = 0))

\* the handler killed a worker that had already exited, kill returned an
\* error, and the handler exited the process
C9_Witness ==
    /\ h_pc = "done"
    /\ kill_count = 1
    /\ kill_target \in {"exited", "reaped"}
    /\ kill_result = "err"

\* C10: after a fatal-to-launch condition (worker binary, node or llbot.js
\* missing, no free port, spawn failure) the launcher only exits, with a
\* non-zero code; no worker is supervised and the login monitor is not
\* started.
C10_FatalLaunch ==
    fatal \in LaunchFatal
    => /\ main_pc \in {"wait_exit", "done"}
       /\ worker = "none"
       /\ slot = "None"
       /\ ~handler_set
       /\ mon_pc = "none" /\ ref_pc = "none" /\ sse_pc = "none"
       /\ exited => (exit_kind = "signal" \/ exit_code # 0)
       /\ (exited /\ exit_kind = "code") => exit_code = 1

\* the spawn failed and the launcher exited with code 1
C10_Witness ==
    /\ fatal = "spawn_failed"
    /\ exited
    /\ exit_kind = "code"
    /\ exit_code = 1

\* C11: when the worker binary is not found the launcher only exits, with
\* code 1, and find_available_port is never called; in every execution the
\* worker-binary check comes before the port search.
C11_NoPortSearchWithoutWorker ==
    /\ main_pc = "find_pmhq" => ~port_tried
    /\ fatal = "no_pmhq"
       => /\ ~port_tried
          /\ port = NoPort
          /\ main_pc \in {"wait_exit", "done"}
          /\ (exited /\ exit_kind = "code") => exit_code = 1

\* the binary was missing and the launcher has exited with code 1
C11_Witness ==
    /\ fatal = "no_pmhq"
    /\ exited
    /\ exit_kind = "code"
    /\ exit_code = 1
    /\ ~port_tried

\* C12: with --update and no help or version flag, a launcher that has
\* exited has run the update flow; the update flow and the supervised worker
\* spawn never both occur; a help or version flag short-circuits before the
\* spawn, the port search and the login monitor.
C12_UpdateAlwaysRuns ==
    /\ ( /\ HasUpdate(args) /\ ~HasHelp(args) /\ ~HasVersion(args)
         /\ exited /\ exit_kind = "code" )
       => update_ran
    /\ ~(update_ran /\ worker # "none")
    /\ (HasHelp(args) \/ HasVersion(args))
       => (worker = "none" /\ ~port_tried /\ mon_pc = "none")

(***************************************************************************)
(* Properties of compare_versions                                          *)
(***************************************************************************)
\* C17 as stated: for any two different version strings exactly one of
\* newer(a, b) and newer(b, a) is true, and newer("1.2.0", "1.10.0") is true.
C17_AntisymmetricUnlessEqual ==
    cv_pc = "ret"
    => /\ cv_cur # cv_lat => (cv_newer = ~compare_versions(cv_lat, cv_cur))
       /\ ( /\ cv_cur = <<"1", ".", "2", ".", "0">>
            /\ cv_lat = <<"1", ".", "1", "0", ".", "0">> ) => cv_newer

\* C17: newer(a, b) and newer(b, a) are never both true; both are false
\* exactly when a and b parse to the same numbers up to trailing zeros, which
\* includes a = b but also different strings such as "1" and "1.0"; and
\* newer("1.2.0", "1.10.0") is true.
C17_AsymmetricUpToParse ==
    cv_pc = "ret"
    => LET back == compare_versions(cv_lat, cv_cur)
           cp == parse_version(cv_cur)
           lp == parse_version(cv_lat)
           same == \A i \in 1..MaxOf(Len(cp), Len(lp)) :
                       PartAt(cp, i) = PartAt(lp, i)
       IN  /\ ~(cv_newer /\ back)
           /\ (~cv_newer /\ ~back) <=> same
           /\ cv_cur = cv_lat => same
           /\ ( /\ cv_cur = <<"1", ".", "2", ".", "0">>
                /\ cv_lat = <<"1", ".", "1", "0", ".", "0">> ) => cv_newer

C17_Witness ==
    /\ cv_pc = "ret"
    /\ cv_cur = <<"1", ".", "2", ".", "0">>
    /\ cv_lat = <<"1", ".", "1", "0", ".", "0">>
    /\ cv_newer
    /\ ~compare_versions(cv_lat, cv_cur)

\* C18 as stated: when the local version is the not-installed sentinel,
\* compare_versions reports an update against every version string made of
\* numeric segments, those whose segments are all zero included.
C18_NotInstalledAlwaysUpdates ==
    LET segs == SplitOn(cv_lat, ".")
        numeric == \A i \in 1..Len(segs) :
                       /\ segs[i] # <<>>
                       /\ \A k \in 1..Len(segs[i]) : segs[i][k] \in DigitSet
    IN  (cv_pc = "ret" /\ cv_cur = NOT_INSTALLED /\ numeric) => cv_newer

\* C19 as stated: on version strings whose segments, after the suffix from
\* '-' on is removed, are all decimal numerals, compare_versions equals the
\* reference rule: read each segment as a number, take missing trailing
\* segments as zero, true exactly when latest is larger at the first position
\* where the two differ.
C19_EqualsReferenceRule ==
    LET Segs(v) == [i \in 1..Len(SplitOn(v, ".")) |-> BeforeDash(SplitOn(v, ".")[i])]
        Plain(v) == \A i \in 1..Len(Segs(v)) :
                        /\ Segs(v)[i] # <<>>
                        /\ \A k \in 1..Len(Segs(v)[i]) : Segs(v)[i][k] \in DigitSet
        Norm(d) == LET nz == {k \in 1..Len(d) : d[k] # "0"}
                   IN  IF nz = {} THEN <<>>
                       ELSE SubSeq(d, CHOOSE k \in nz : \A j \in nz : k <= j, Len(d))
        NumLess(a, b) ==
            LET x == Norm(a)
                y == Norm(b)
            IN  \/ Len(x) < Len(y)
                \/ /\ Len(x) = Len(y)
                   /\ \E k \in 1..Len(x) :
                        /\ DigitVal(x[k]) < DigitVal(y[k])
                        /\ \A j \in 1..(k - 1) : x[j] = y[j]
        SegAt(v, i) == IF i <= Len(Segs(v)) THEN Segs(v)[i] ELSE <<"0">>
        Ref(c, l) ==
            \E i \in 1..MaxOf(Len(Segs(c)), Len(Segs(l))) :
                /\ NumLess(SegAt(c, i), SegAt(l, i))
                /\ \A j \in 1..(i - 1) : Norm(SegAt(c, j)) = Norm(SegAt(l, j))
    IN  (cv_pc = "ret" /\ Plain(cv_cur) /\ Plain(cv_lat))
        => (cv_newer = Ref(cv_cur, cv_lat))

(***************************************************************************)
(* Properties of the update resolver                                       *)
(***************************************************************************)
\* C13: when the primary has failed, fetch_package_info returns Ok exactly
\* when some mirror sent a success, and then it returns the first success in
\* arrival order on the channel, whatever was sent before or after it; a
\* thread that sends after the function has returned changes neither the
\* result nor any UpdateInfo.
C13_FirstSuccessWins ==
    [][ /\ (res_pc' = "fetched" /\ chan_kind' = "info")
           => LET somes == {k \in 1..Len(chan') : chan'[k].some}
              IN  /\ (fetch_res'.tag = "Ok") <=> (somes # {})
                  /\ somes # {}
                     => LET first == CHOOSE k \in somes : \A j \in somes : k <= j
                        IN  fetch_res'.version = chan'[first].val
                  /\ somes = {} => fetch_res'.tag = "Err"
        /\ abandoned' < abandoned
           => /\ fetch_res' = fetch_res
              /\ infos' = infos
              /\ res_pc' = res_pc ]_vars

C13_Witness ==
    /\ res_pc = "fetched"
    /\ chan_kind = "info"
    /\ Len(chan) = Len(NPM_REGISTRY_MIRRORS)
    /\ ~chan[1].some
    /\ chan[2].some
    /\ chan[3].some
    /\ chan[2].val # chan[3].val
    /\ fetch_res.tag = "Ok"
    /\ fetch_res.version = chan[2].val

\* C14: when the primary and every mirror have failed for a component, the
\* UpdateInfo check_update returns has the unknown sentinel as latest version,
\* has_update false and no URL, and run_update goes on to the next component:
\* at the table every component has its UpdateInfo, in call order.
C14_AllFailIsUnknownAndOthersChecked ==
    [][ /\ (res_pc = "fetched" /\ fetch_res.tag = "Err" /\ infos' # infos)
           => /\ infos' = Append(infos, [ name |-> Components[res_i],
                                          current_version |-> local_ver[res_i],
                                          latest_version |-> UNKNOWN_VERSION,
                                          has_update |-> FALSE,
                                          tarball_url |-> [tag |-> "None"] ])
              /\ res_i < Len(Components) => (res_pc' = "check" /\ res_i' = res_i + 1)
        /\ (res_pc' = "fetched" /\ fetch_res'.tag = "Err")
           => /\ primary_asked'
              /\ chan_kind' = "info"
              /\ Len(chan') = Len(NPM_REGISTRY_MIRRORS)
              /\ \A k \in 1..Len(chan') : ~chan'[k].some
        /\ res_pc' = "table"
           => /\ Len(infos') = Len(Components)
              /\ \A k \in 1..Len(Components) : infos'[k].name = Components[k] ]_vars

C14_Witness ==
    /\ res_pc = "table"
    /\ infos[1].latest_version = UNKNOWN_VERSION
    /\ ~infos[1].has_update
    /\ infos[1].tarball_url.tag = "None"
    /\ infos[2].has_update
    /\ infos[3].latest_version # UNKNOWN_VERSION

\* C15 as stated: the UpdateInfo check_update has just returned has a URL
\* exactly when has_update is true and some registry confirmed that the
\* resolved version exists.
C15_UrlIffConfirmed ==
    (res_pc \in {"check", "table"} /\ infos # <<>>)
    => LET info == infos[Len(infos)]
           confirmed == /\ chan_kind = "exists"
                        /\ \E k \in 1..Len(chan) : chan[k].some
       IN  (info.tarball_url.tag = "Some") <=> (info.has_update /\ confirmed)

\* C15: the UpdateInfo check_update has just returned has a URL exactly when
\* has_update is true.  The URL is for the resolved version; it is on the
\* first mirror to confirm that the version exists, or, when no mirror
\* confirms, on the primary registry, whose copy is not checked.
C15_UrlIffHasUpdate ==
    (res_pc \in {"check", "table"} /\ infos # <<>>)
    => LET info == infos[Len(infos)]
           somes == IF chan_kind = "exists"
                    THEN {k \in 1..Len(chan) : chan[k].some} ELSE {}
       IN  /\ (info.tarball_url.tag = "Some") <=> info.has_update
           /\ info.has_update
              => /\ chan_kind = "exists"
                 /\ info.tarball_url.version = info.latest_version
                 /\ somes = {} => info.tarball_url.registry = NPM_OFFICIAL_REGISTRY
                 /\ somes # {} => \E k \in somes :
                                      info.tarball_url.registry = chan[k].val

C15_Witness ==
    /\ res_pc \in {"check", "table"}
    /\ infos # <<>>
    /\ infos[Len(infos)].has_update
    /\ infos[Len(infos)].tarball_url.tag = "Some"
    /\ infos[Len(infos)].tarball_url.registry = NPM_OFFICIAL_REGISTRY
    /\ chan_kind = "exists"
    /\ \A k \in 1..Len(chan) : ~chan[k].some

\* C16: the registry get_best_download_registry returns is a mirror only when
\* that mirror sent its confirmation, and it is the mirror of the first
\* confirmation to arrive; it is the primary registry exactly when all the
\* mirrors answered and none confirmed.
C16_BestRegistryIsFirstConfirmation ==
    (res_pc \in {"check", "table"} /\ infos # <<>> /\ chan_kind = "exists")
    => LET reg == infos[Len(infos)].tarball_url.registry
           somes == {k \in 1..Len(chan) : chan[k].some}
       IN  /\ reg \in {NPM_REGISTRY_MIRRORS[m] : m \in Mirrors} \cup {NPM_OFFICIAL_REGISTRY}
           /\ reg # NPM_OFFICIAL_REGISTRY
              => /\ somes # {}
                 /\ \A k \in somes : (\A j \in somes : k <= j) => chan[k].val = reg
           /\ (reg = NPM_OFFICIAL_REGISTRY)
              <=> (somes = {} /\ Len(chan) = Len(NPM_REGISTRY_MIRRORS))

C16_Witness ==
    /\ res_pc \in {"check", "table"}
    /\ infos # <<>>
    /\ chan_kind = "exists"
    /\ Len(chan) >= 2
    /\ ~chan[1].some
    /\ chan[2].some
    /\ infos[Len(infos)].tarball_url.registry = chan[2].val
    /\ chan[2].val = NPM_REGISTRY_MIRRORS[3]

(***************************************************************************)
(* Properties of the update coordinator                                    *)
(***************************************************************************)
\* C20 as stated: what the launcher's executable path holds changes only
\* after the launcher process has exited, by the helper it handed off to; the
\* running launcher never renames, removes or overwrites it.
C20_OwnExeUntouchedWhileRunning ==
    [][ own_exe' # own_exe => (exited /\ helper # "none") ]_vars

\* C20: on the Windows build the running launcher never renames, removes or
\* overwrites its own executable: self_update prepares the files, starts the
\* helper script and exits, and the helper swaps the file only after the
\* launcher's process is gone.  On the other builds there is no helper:
\* self_update itself, in the running launcher, renames its executable to the
\* backup path and copies the new one to the original path, renaming the
\* backup back when the copy fails.
C20_HelperSwapOnWindowsOnly ==
    [][ /\ platform = "windows"
           => /\ own_exe' # own_exe => (exited /\ helper \in {"waiting", "moved"})
              /\ (helper = "none" /\ helper' # "none") => (~exited /\ exited')
        /\ platform # "windows"
           => /\ helper' = "none"
              /\ own_exe' # own_exe
                 => (~exited /\ co_pc \in {"self_backup", "self_copy", "self_perm"})
              /\ (own_exe = "old" /\ own_exe' # "old")
                 => (co_pc = "self_backup" /\ own_exe' = "missing" /\ backup_exe' = "old") ]_vars

C20_Witness ==
    /\ platform = "windows"
    /\ exited
    /\ exit_kind = "code"
    /\ exit_code = 0
    /\ helper = "done"
    /\ own_exe = "new"
    /\ backup_exe = "old"

\* C21 as stated: whenever self_update has returned an error, the launcher's
\* executable path holds the old binary, and run_update has returned normally:
\* the launcher is still running or has left through wait_exit(0).
C21_SelfUpdateErrKeepsOldBinary ==
    self_res = "Err"
    => /\ own_exe = "old"
       /\ co_pc \in {"returned", "done"}
       /\ exited => (exit_kind = "code" /\ exit_code = 0)

\* C22: self_update is started only when download_and_extract has returned,
\* with Ok or Err, for every other component of the update list, and no
\* download_and_extract of a component starts after it.
C22_SelfUpdateLast ==
    [][ LET selfStarted(pc, res) ==
                \/ pc \in {"self_prepare", "self_handoff", "self_backup",
                           "self_copy", "self_perm", "handed_off"}
                \/ res # "none"
        IN  /\ selfStarted(co_pc', self_res')
               => \A k \in 1..Len(updates') :
                      infos'[updates'[k]].name \in Installed
                      => dl_res'[infos'[updates'[k]].name] \in {"Ok", "Err"}
            /\ dl_res' # dl_res => ~selfStarted(co_pc, self_res) ]_vars

C22_Witness ==
    /\ co_pc = "self_prepare"
    /\ Len(updates) = Len(Components)
    /\ dl_res["PMHQ"] = "Err"
    /\ dl_res["LLBot"] = "Ok"
    /\ self_res = "none"
    /\ own_exe = "old"

\* C23: a download_and_extract that returns an error leaves run_update in its
\* loop at the next entry; the loop is left only when every component of the
\* list other than the launcher has been attempted, and then self_update
\* starts whenever the launcher's own entry is in the list.
C23_LoopSurvivesFailure ==
    [][ /\ (co_pc = "loop" /\ dl_res' # dl_res)
           => (co_pc' = "loop" /\ upd_k' = upd_k + 1 /\ ~exited')
        /\ (co_pc = "loop" /\ co_pc' # "loop")
           => /\ \A k \in 1..Len(updates) :
                    infos[updates[k]].name \in Installed
                    => dl_res[infos[updates[k]].name] \in {"Ok", "Err"}
              /\ (\E k \in 1..Len(updates) : infos[updates[k]].name = "LLBot CLI")
                 => co_pc' = "self_prepare"
              /\ (\A k \in 1..Len(updates) : infos[updates[k]].name # "LLBot CLI")
                 => co_pc' = "returned" ]_vars

C23_Witness ==
    /\ Len(updates) = Len(Components)
    /\ dl_res["PMHQ"] = "Err"
    /\ dl_res["LLBot"] = "Ok"
    /\ dir_state["LLBot"] = "new"
    /\ self_res = "Ok"
    /\ own_exe = "new"

(***************************************************************************)
(* Properties of download_and_extract                                      *)
(***************************************************************************)
\* C24 as stated: when download_and_extract has returned an error the
\* installation directory holds exactly what it held before the call: no entry
\* removed or replaced, no scratch file or scratch directory added.
C24_ErrLeavesDirUntouched ==
    (dl_pc = "ret" /\ dl_ret = "Err") => dl_dir = dl_before

(***************************************************************************)
(* Progress of the login session monitor                                   *)
(***************************************************************************)
\* C25: the stream listener returns only with the logged-in flag true, and
\* after every failed connection, read error or stream end it comes to a new
\* connection attempt unless the flag has been set meanwhile.
C25_ListenerKeepsReconnecting ==
    /\ [](sse_pc = "done" => logged_in)
    /\ (\/ sse_pc = "backoff"
        \/ sse_pc = "check" /\ sse_line.kind \in {"end", "err"})
       ~> (sse_pc = "connect" \/ logged_in)

C25_Witness ==
    /\ sse_pc = "connect"
    /\ sse_line.kind = "err"
    /\ ~logged_in
    /\ ref_result = "err"

\* C26 as stated: the listener goes from the top of its loop to a connection
\* attempt right after a failed connection, a read error or a stream end only
\* through the backoff sleep.  After the sleep and at the first attempt the
\* last item read is none; after a disconnect it is the read error or the end
\* of the stream.
C26_BackoffBeforeEveryReconnect ==
    [][ (sse_pc = "check" /\ sse_pc' = "connect")
        => sse_line.kind \notin {"end", "err"} ]_vars

\* C27: with the flag false the cycle check always leads to a QR request; a
\* request, failed or not, changes neither the flag nor the monitor and leads
\* into a sleep window that starts at zero; the window counter moves only by
\* one per one-second sleep taken after a flag check that found the flag
\* false; every request but the first starts after the counter has reached
\* 120; the loop ends only with the flag true.
C27_RefreshCycle ==
    [][ /\ (ref_pc = "check" /\ ref_pc' # "check" /\ ~logged_in)
           => ref_pc' = "request"
        /\ (ref_pc = "request" /\ ref_pc' # "request")
           => /\ ref_pc' = "win_check"
              /\ ref_i' = 0
              /\ logged_in' = logged_in
              /\ mon_pc' = mon_pc
              /\ sse_pc' = sse_pc
              /\ UNCHANGED supVars
        /\ (ref_i' # ref_i)
           => \/ ref_pc = "request" /\ ref_i' = 0
              \/ /\ ref_pc = "win_sleep" /\ ref_pc' = "win_check"
                 /\ ref_i < SleepChecks
                 /\ ref_i' = ref_i + 1
        /\ (ref_pc = "win_check" /\ ref_pc' = "win_sleep") => ~logged_in
        /\ (ref_pc # "request" /\ ref_pc' = "request")
           => /\ ~logged_in
              /\ ref_result = "none" \/ ref_i = SleepChecks
        /\ (ref_pc # "done" /\ ref_pc' = "done") => logged_in ]_vars

C27_Witness ==
    /\ ref_pc = "request"
    /\ ref_result = "err"
    /\ ref_i = SleepChecks
    /\ ~logged_in
    /\ ~exited

\* C28: the account-info outcome is written once, by the monitor after the
\* listener has returned with the flag true; whatever the outcome, the step
\* leaves the flag true and the supervisor's state unchanged, and the monitor
\* is then finished for the rest of the run.
C28_SelfInfoOnceAfterLogin ==
    [][ /\ (info_result' # info_result)
           => /\ info_result = "none"
              /\ mon_pc = "self_info" /\ mon_pc' = "done"
              /\ sse_pc = "done"
              /\ logged_in /\ logged_in'
              /\ UNCHANGED supVars
        /\ (mon_pc = "self_info" /\ mon_pc' # "self_info")
           => info_result' # "none"
        /\ (mon_pc = "done") => mon_pc' = "done" ]_vars

C28_Witness ==
    /\ mon_pc = "done"
    /\ info_result = "no_uin"
    /\ logged_in
    /\ ~exited
    /\ worker = "running"
    /\ slot = "Some"

C30_RefreshLoopEnds ==
    /\ logged_in ~> (ref_pc = "done")
    /\ [][ (logged_in /\ ref_pc' # ref_pc)
           => /\ ref_pc \in {"request", "win_sleep"} => ref_pc' = "win_check"
              /\ ref_pc = "win_check" => ref_pc' = "check"
              /\ ref_pc = "check" => ref_pc' = "done"
              /\ ref_pc \in {"request", "win_sleep", "win_check", "check"} ]_vars

C30_Witness ==
    /\ logged_in
    /\ ref_pc = "done"
    /\ ref_i > 0
    /\ ref_i < SleepChecks
    /\ ref_result = "err"

\* C31: a mirror race that has started comes to its end; during a race the
\* messages sent and the threads still running add up to the number of
\* mirrors, so that every thread sends once; the consumer leaves the race
\* either at the first message that is a success, all earlier ones being
\* failures, or after it has received one failure from every mirror.
C31_RacesTerminate ==
    /\ (res_pc \in {"fetch_rx", "exists_rx"})
       ~> (res_pc \notin {"fetch_rx", "exists_rx"})
    /\ [](res_pc \in {"fetch_rx", "exists_rx"}
          => Len(chan) + Running(thr) = Len(NPM_REGISTRY_MIRRORS))
    /\ [][ LET N == Len(NPM_REGISTRY_MIRRORS)
           IN  (res_pc \in {"fetch_rx", "exists_rx"} /\ res_pc' # res_pc)
               => \/ /\ rx_n < Len(chan)
                     /\ chan[rx_n + 1].some
                     /\ \A k \in 1..rx_n : ~chan[k].some
                  \/ /\ rx_n = N
                     /\ Len(chan) = N
                     /\ \A k \in 1..N : ~chan[k].some ]_vars

C31_Witness ==
    /\ res_pc \in {"check", "table"}
    /\ chan_kind = "exists"
    /\ Len(chan) = Len(NPM_REGISTRY_MIRRORS)
    /\ rx_n = Len(chan)
    /\ \A k \in 1..Len(chan) : ~chan[k].some
    /\ infos # <<>>
    /\ infos[Len(infos)].tarball_url = SomeUrl(NPM_OFFICIAL_REGISTRY,
                                               infos[Len(infos)].latest_version)

\* C32: the mirror threads of fetch_package_info are started only by the step
\* that has asked the primary registry and got no usable answer, and a mirror
\* sends only in a call whose primary request has been made and has failed;
\* when the primary answers, the call has its result with no mirror thread
\* started and no channel message.
C32_PrimaryFirst ==
    /\ [][ /\ (res_pc' = "fetch_rx" /\ res_pc # "fetch_rx")
              => /\ res_pc = "check" /\ ~primary_asked /\ primary_asked'
                 /\ fetch_res'.tag = "none"
           /\ (Running(thr') > Running(thr) /\ chan_kind' = "info")
              => /\ res_pc = "check" /\ res_pc' = "fetch_rx"
           /\ (res_pc = "fetch_rx" /\ Len(chan') > Len(chan))
              => /\ primary_asked
                 /\ fetch_res.tag = "none"
           /\ (res_pc = "check" /\ res_pc' = "fetched")
              => /\ fetch_res'.tag = "Ok"
                 /\ primary_asked'
                 /\ Running(thr') = 0
                 /\ chan' = <<>>
                 /\ chan_kind' = "none" ]_vars
    /\ [](res_pc = "fetched" /\ chan_kind = "none"
          => primary_asked /\ fetch_res.tag = "Ok" /\ Running(thr) = 0 /\ chan = <<>>)

C32_Witness ==
    /\ res_pc = "fetched"
    /\ res_i = 2
    /\ chan_kind = "none"
    /\ fetch_res.tag = "Ok"
    /\ primary_asked
    /\ Running(thr) = 0
    /\ infos[1].latest_version = UNKNOWN_VERSION

\* C33: the loop index of run_update leaves zero only at the confirmed prompt,
\* which is reached only with a component that has an update and a URL; while
\* it is zero no installation directory, no executable, no backup and no
\* result of a download changes; a run that ends at the empty filter or at
\* the declined prompt keeps the index at zero to its end.
C33_NothingBeforeConfirm ==
    [][ /\ (upd_k = 0)
           => UNCHANGED <<dir_state, dl_res, self_res, own_exe, backup_exe, helper>>
        /\ (upd_k = 0 /\ upd_k' # 0)
           => /\ co_pc = "prompt" /\ co_pc' = "loop"
              /\ updates # <<>>
              /\ \A k \in 1..Len(updates) :
                   /\ infos[updates[k]].has_update
                   /\ infos[updates[k]].tarball_url.tag = "Some"
        /\ (co_pc = "table" /\ co_pc' # "table"
            /\ \A k \in 1..Len(infos) :
                 ~(infos[k].has_update /\ infos[k].tarball_url.tag = "Some"))
           => co_pc' = "returned" /\ upd_k' = 0
        /\ (co_pc = "prompt" /\ co_pc' # "prompt")
           => \/ co_pc' = "loop" /\ upd_k' = 1
              \/ co_pc' = "returned" /\ upd_k' = 0
        /\ (upd_k = 0 /\ co_pc \in {"returned", "done", "killed"})
           => upd_k' = 0 ]_vars

C33_Witness ==
    /\ co_pc = "done"
    /\ exited
    /\ upd_k = 0
    /\ updates # <<>>
    /\ \A c \in Installed : dir_state[c] = "old" /\ dl_res[c] = "none"
    /\ own_exe = "old"
    /\ helper = "none"
    /\ self_res = "none"

\* C34 as stated: on each stream the launcher's output is at all times a
\* prefix of what the worker has written there, and every line the worker has
\* written is eventually part of the launcher's output.
C34_EveryLineRelayedInOrder ==
    /\ [](\A s \in Streams :
            /\ Len(rl_out[s]) <= Len(rl_written[s])
            /\ rl_out[s] = SubSeq(rl_written[s], 1, Len(rl_out[s])))
    /\ \A s \in Streams : \A n \in 1..MaxLines :
         (Len(rl_written[s]) >= n) ~> (Len(rl_out[s]) >= n)

====
